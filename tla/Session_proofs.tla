--------------------------- MODULE Session_proofs ---------------------------
(***************************************************************************)
(* For every order of the commands, the brake between any two calls, and   *)
(* the failures of their calls, any number of those, any buffer, table and *)
(* lengths:                                                                *)
(*                                                                         *)
(* that the generator is all there or not at all between two commands,     *)
(* that nothing takes the output from under it while it plays, and that    *)
(* the one DMA window covers every channel that is on (SessionInv);        *)
(*                                                                         *)
(* that a standing stream between two commands is as it was set up.  What  *)
(* is left of a command is a program, and an invariant of its variables    *)
(* alone cannot say what it will do.  So the invariant is that this        *)
(* program has a proof outline: a fact set before each of its calls, true  *)
(* now before the first one, such that every call turns its set into the   *)
(* next one's, every fallback has an outline of its own, and the end has   *)
(* no stream or knows all a standing stream needs (OutlineInv).            *)
(***************************************************************************)
EXTENDS Session, SequenceTheorems, TLAPS

Spans == Nat \X Nat

(* The calls of the generator, which only siggen_start() and               *)
(* siggen_stop() are made of.                                              *)
GenCalls == {"sccp2_stop", "sccp2_start", "dma2_stop", "dma2_window", "dma2_window_back",
             "dma2_enable", "claim", "gen"}

(* What the other commands fall back on.                                   *)
Undone      == acq_chain_restore \o <<Call("route", "none")>>
ChainUndone == <<Do("settle")>> \o Undone
ChainStart  == capture_chain_start(Everything, Undone) \o <<Call("stream", TRUE)>>
Fallbacks   == {<<>>, NotOk, ChainUndone, ChainStart}

IsSequence(s) == \E S : s \in Seq(S)

(* The i-th of the calls s, while the generator plays on DAC g: a DAC that *)
(* goes off or into triangle mode is another one, or the generator has     *)
(* been stopped by then; a start of the generator is the last call and     *)
(* follows its stop.                                                       *)
Spared(s, i, g, u) ==
  g # u \/ \E j \in 1 .. (i - 1) : s[j][1] = "siggen_stop" /\ s[j][2] \in {0, u}
Fits(s, i, g) ==
  /\ s[i][1] \notin GenCalls
  /\ s[i][4] \in Fallbacks
  /\ s[i][3] \in {0, 1, Everything}
  /\ s[i][3] = 1 => i < Len(s) /\ s[i + 1][1] = "dac_enable"
  /\ s[i][1] = "half" => s[i][2] \in Halves
  /\ s[i][1] = "siggen_start" =>
       /\ i = Len(s) /\ s[i][2] \in Units \X Lengths
       /\ i = 1 => g = 0
       /\ i > 1 => s[i - 1] = Do("siggen_stop")
  /\ s[i][1] = "dac_unit_off" => s[i][2] \in Units /\ Spared(s, i, g, s[i][2])
  /\ s[i][1] = "dac_enable" =>
       /\ s[i][2] \in Units \X {"level", "triangle"}
       /\ s[i][2][2] = "level" \/ Spared(s, i, g, s[i][2][1])

(* The window is set to a range between the stop of channel 0 and its      *)
(* start over that range.                                                  *)
Arms(s, i) ==
  /\ s[i][1] = "dma0_window" =>
       i > 1 /\ s[i - 1][1] = "dma0_stop" /\ s[i][2] \in Spans \ {None}
  /\ s[i][1] = "dma0_enable" =>
       /\ i > 2 /\ s[i - 1][1] = "window_write"
       /\ s[i - 2][1] = "dma0_window" /\ s[i - 2][2] = s[i][2][1]
Clean(s, g) == IsSequence(s) /\ \A i \in 1 .. Len(s) : Fits(s, i, g) /\ Arms(s, i)

(* The same of a command that runs, with the DMA as it is.                 *)
ArmsNow(s, i, d) ==
  /\ s[i][1] = "dma0_window" =>
       /\ s[i][2] \in Spans \ {None}
       /\ i = 1 => ~d.ch0
       /\ i > 1 => s[i - 1][1] = "dma0_stop"
  /\ s[i][1] = "dma0_enable" =>
       /\ i = 1 => d.win0 = s[i][2][1] /\ d.win0 # None /\ Within(d.win0, d.window)
       /\ i = 2 => s[1][1] = "window_write" /\ d.win0 = s[i][2][1] /\ d.win0 # None
       /\ i > 2 => /\ s[i - 1][1] = "window_write" /\ s[i - 2][1] = "dma0_window"
                   /\ s[i - 2][2] = s[i][2][1]
Ready(s, g, d) == IsSequence(s) /\ \A i \in 1 .. Len(s) : Fits(s, i, g) /\ ArmsNow(s, i, d)

(* No call of a program starts the generator.                              *)
Quiet(s) == \A i \in 1 .. Len(s) : s[i][1] # "siggen_start"
(* A call nothing depends on.                                              *)
Simple(c) ==
  /\ c[1] \notin GenCalls \cup {"half", "siggen_start", "dac_unit_off", "dac_enable",
                                "dma0_window", "dma0_enable"}
  /\ c[4] \in Fallbacks /\ c[3] \in {0, Everything}
Simples(s) == IsSequence(s) /\ \A i \in 1 .. Len(s) : Simple(s[i])

(* Two sequences of calls, one after the other.                            *)
LEMMA Joining ==
  ASSUME NEW s, NEW t, IsSequence(s), IsSequence(t)
  PROVE  /\ IsSequence(s \o t)
         /\ Len(s) \in Nat /\ Len(t) \in Nat
         /\ Len(s \o t) = Len(s) + Len(t)
         /\ \A i \in 1 .. Len(s) : (s \o t)[i] = s[i]
         /\ \A i \in 1 .. Len(t) : (s \o t)[Len(s) + i] = t[i]
         /\ s = <<>> <=> Len(s) = 0
         /\ s # <<>> => Len(s) > 0
         /\ t # <<>> => Len(t) > 0
<1>1. PICK S : s \in Seq(S)
  BY DEF IsSequence
<1>2. PICK T : t \in Seq(T)
  BY DEF IsSequence
<1>3. s \in Seq(S \cup T) /\ t \in Seq(S \cup T)
  <2>1. \A U, V, q : q \in Seq(U) => q \in Seq(U \cup V)
    <3> SUFFICES ASSUME NEW U, NEW V, NEW q \in Seq(U) PROVE q \in Seq(U \cup V)
      OBVIOUS
    <3>1. Len(q) \in Nat /\ q \in [1 .. Len(q) -> U]
      OBVIOUS
    <3>2. q \in [1 .. Len(q) -> U \cup V]
      BY <3>1
    <3> QED
      BY <3>1, <3>2, SeqDef
  <2>2. S \cup T = T \cup S
    OBVIOUS
  <2> QED
    BY <1>1, <1>2, <2>1, <2>2
<1>4. s \o t \in Seq(S \cup T)
  BY <1>3
<1> QED
  BY <1>3, <1>4 DEF IsSequence

(* Two programs, one after the other, are one. *)
LEMMA CleanJoin ==
  ASSUME NEW s, NEW t, NEW g, Clean(s, g), Clean(t, g), Quiet(s),
         t # <<>> => t[1][1] # "siggen_start"
  PROVE  Clean(s \o t, g) /\ (Quiet(t) => Quiet(s \o t))
<1> DEFINE u == s \o t
<1>1. /\ IsSequence(s) /\ IsSequence(t) /\ IsSequence(u)
      /\ Len(s) \in Nat /\ Len(t) \in Nat /\ Len(u) = Len(s) + Len(t)
      /\ \A i \in 1 .. Len(s) : u[i] = s[i]
      /\ \A i \in 1 .. Len(t) : u[Len(s) + i] = t[i]
      /\ t # <<>> => Len(t) > 0
  BY Joining DEF Clean
<1> HIDE DEF u
<1>2. ASSUME NEW i \in 1 .. Len(s) PROVE Fits(u, i, g) /\ Arms(u, i) /\ u[i][1] # "siggen_start"
  <2>1. /\ Fits(s, i, g) /\ Arms(s, i) /\ u[i] = s[i] /\ s[i][1] # "siggen_start"
        /\ i > 1 => u[i - 1] = s[i - 1]
        /\ i > 2 => u[i - 2] = s[i - 2]
        /\ i < Len(s) => u[i + 1] = s[i + 1] /\ i < Len(u)
        /\ \A j \in 1 .. (i - 1) : u[j] = s[j]
    <3>1. Fits(s, i, g) /\ Arms(s, i) /\ s[i][1] # "siggen_start"
      BY <1>2 DEF Clean, Quiet
    <3>2. /\ i > 1 => i - 1 \in 1 .. Len(s)
          /\ i > 2 => i - 2 \in 1 .. Len(s)
          /\ i < Len(s) => i + 1 \in 1 .. Len(s) /\ i < Len(u)
          /\ \A j \in 1 .. (i - 1) : j \in 1 .. Len(s)
      BY <1>1, <1>2
    <3> QED
      BY <1>1, <3>1, <3>2
  <2>2. \A v : Spared(s, i, g, v) => Spared(u, i, g, v)
    BY <2>1 DEF Spared
  <2>3. Fits(u, i, g)
    BY <2>1, <2>2 DEF Fits
  <2> QED
    BY <2>1, <2>3 DEF Arms
<1>3. ASSUME NEW i \in 1 .. Len(t)
      PROVE  Fits(u, Len(s) + i, g) /\ Arms(u, Len(s) + i)
  <2> DEFINE k == Len(s) + i
  <2>1. /\ k \in Nat /\ k > 0 /\ (k = 1 => i = 1)
        /\ Fits(t, i, g) /\ Arms(t, i) /\ u[k] = t[i]
        /\ i > 1 => u[k - 1] = t[i - 1] /\ k > 1
        /\ i > 2 => u[k - 2] = t[i - 2] /\ k > 2
        /\ i < Len(t) => u[k + 1] = t[i + 1] /\ k < Len(u)
        /\ i = Len(t) => k = Len(u)
        /\ i = 1 => t[i][1] # "siggen_start"
    <3>1. Fits(t, i, g) /\ Arms(t, i) /\ u[k] = t[i]
      BY <1>1, <1>3 DEF Clean
    <3>2. i > 1 => i - 1 \in 1 .. Len(t) /\ k - 1 = Len(s) + (i - 1)
      BY <1>1, <1>3
    <3>3. i > 2 => i - 2 \in 1 .. Len(t) /\ k - 2 = Len(s) + (i - 2)
      BY <1>1, <1>3
    <3>4. i < Len(t) => i + 1 \in 1 .. Len(t) /\ k + 1 = Len(s) + (i + 1)
      BY <1>1, <1>3
    <3>5. i = 1 => t[i][1] # "siggen_start"
      <4>1. t # <<>>
        BY <1>1, <1>3
      <4> QED
        BY <4>1
    <3>6. /\ k \in Nat /\ k > 0 /\ (k = 1 => i = 1)
          /\ i > 1 => k > 1
          /\ i > 2 => k > 2
          /\ i < Len(t) => k < Len(u)
          /\ i = Len(t) => k = Len(u)
      <4>1. Len(s) \in Nat /\ Len(t) \in Nat /\ Len(u) = Len(s) + Len(t) /\ i \in 1 .. Len(t)
        BY <1>1, <1>3
      <4>2. i \in Nat /\ i > 0 /\ i <= Len(t)
        BY <4>1
      <4> QED
        BY <4>1, <4>2
    <3>7. /\ i > 1 => u[k - 1] = t[i - 1]
          /\ i > 2 => u[k - 2] = t[i - 2]
          /\ i < Len(t) => u[k + 1] = t[i + 1]
      BY <1>1, <3>2, <3>3, <3>4
    <3> HIDE DEF k
    <3> QED
      BY <3>1, <3>5, <3>6, <3>7
  <2>2. ASSUME NEW v, Spared(t, i, g, v) PROVE Spared(u, k, g, v)
    <3>1. CASE g # v
      BY <3>1 DEF Spared
    <3>2. CASE \E j \in 1 .. (i - 1) : t[j][1] = "siggen_stop" /\ t[j][2] \in {0, v}
      <4>1. PICK j \in 1 .. (i - 1) : t[j][1] = "siggen_stop" /\ t[j][2] \in {0, v}
        BY <3>2
      <4>2. Len(s) + j \in 1 .. (k - 1) /\ u[Len(s) + j] = t[j]
        BY <1>1, <1>3, <4>1
      <4> QED
        BY <4>1, <4>2 DEF Spared
    <3> QED
      BY <2>2, <3>1, <3>2 DEF Spared
  <2> HIDE DEF k
  <2>3. Fits(u, k, g)
    BY <2>1, <2>2 DEF Fits
  <2>4. Arms(u, k)
    BY <2>1 DEF Arms
  <2> QED
    BY <2>3, <2>4 DEF k
<1>4. ASSUME NEW k \in 1 .. Len(u)
      PROVE  Fits(u, k, g) /\ Arms(u, k) /\ (Quiet(t) => u[k][1] # "siggen_start")
  <2>1. CASE k <= Len(s)
    BY <1>1, <1>2, <2>1
  <2>2. CASE k > Len(s)
    <3>1. PICK i \in 1 .. Len(t) : Len(s) + i = k
      <4>1. k - Len(s) \in 1 .. Len(t) /\ Len(s) + (k - Len(s)) = k
        BY <1>1, <2>2
      <4> QED
        BY <4>1
    <3>2. u[k] = t[i]
      BY <1>1, <3>1
    <3>3. Fits(u, k, g) /\ Arms(u, k)
      BY <1>3, <3>1
    <3> QED
      BY <3>2, <3>3 DEF Quiet
  <2> QED
    BY <1>1, <2>1, <2>2
<1> QED
  BY <1>1, <1>4 DEF Clean, Quiet, u

(* A program fits the board as it is. *)
LEMMA CleanReady ==
  ASSUME NEW s, NEW g, NEW d, Clean(s, g) PROVE Ready(s, g, d)
<1>1. IsSequence(s) /\ Len(s) \in Nat
  BY DEF Clean, IsSequence
<1>2. ASSUME NEW i \in 1 .. Len(s) PROVE Fits(s, i, g) /\ ArmsNow(s, i, d)
  BY <1>1, <1>2 DEF Clean, Arms, ArmsNow
<1> QED
  BY <1>1, <1>2 DEF Ready

LEMMA SimplesClean ==
  ASSUME NEW s, Simples(s) PROVE Quiet(s) /\ \A g : Clean(s, g)
<1>1. ASSUME NEW g, NEW i \in 1 .. Len(s)
      PROVE  Fits(s, i, g) /\ Arms(s, i) /\ s[i][1] # "siggen_start"
  <2>1. Simple(s[i]) /\ Everything # 1
    BY <1>1 DEF Simples, Everything
  <2> QED
    BY <2>1 DEF Simple, Fits, Arms, Everything
<1> QED
  BY <1>1 DEF Quiet, Clean, Simples

(* What follows the call that is made is a program again. *)
LEMMA Popped ==
  ASSUME NEW s, NEW g, NEW d, Ready(s, g, d), s # <<>>,
         Head(s)[1] \notin {"dma0_stop", "dma0_window", "window_write", "siggen_stop"}
  PROVE  Clean(Tail(s), g) /\ (Tail(s) # <<>> => Tail(s)[1][1] # "siggen_start")
<1> DEFINE t == Tail(s)
<1>1. PICK S : s \in Seq(S)
  BY DEF Ready, IsSequence
<1>2. /\ t \in Seq(S) /\ Len(s) \in Nat /\ Len(s) > 0 /\ Len(t) = Len(s) - 1
      /\ \A i \in 1 .. Len(t) : i + 1 \in 1 .. Len(s) /\ t[i] = s[i + 1]
      /\ Head(s) = s[1] /\ (t # <<>> => Len(t) > 0)
  BY <1>1
<1> HIDE DEF t
<1>3. ASSUME NEW i \in 1 .. Len(t)
      PROVE  Fits(t, i, g) /\ Arms(t, i) /\ (i = 1 => t[i][1] # "siggen_start")
  <2> DEFINE k == i + 1
  <2>1. /\ k \in 1 .. Len(s) /\ Fits(s, k, g) /\ ArmsNow(s, k, d) /\ t[i] = s[k]
        /\ s[1][1] \notin {"dma0_stop", "dma0_window", "window_write", "siggen_stop"}
        /\ k > 1 /\ (i = 1 => k = 2 /\ s[k - 1] = s[1])
        /\ i = 2 => k > 2 /\ s[k - 2] = s[1]
        /\ i > 1 => t[i - 1] = s[k - 1] /\ k > 2
        /\ i > 2 => t[i - 2] = s[k - 2]
        /\ k < Len(s) => i < Len(t) /\ t[i + 1] = s[k + 1]
        /\ k = Len(s) => i = Len(t)
    <3>1. /\ k \in 1 .. Len(s) /\ k > 1 /\ (i = 1 => k = 2 /\ k - 1 = 1)
          /\ i = 2 => k > 2 /\ k - 2 = 1
          /\ i > 1 => i - 1 \in 1 .. Len(t) /\ (i - 1) + 1 = k - 1 /\ k > 2
          /\ i > 2 => i - 2 \in 1 .. Len(t) /\ (i - 2) + 1 = k - 2
          /\ k < Len(s) => i < Len(t) /\ i + 1 \in 1 .. Len(t) /\ (i + 1) + 1 = k + 1
          /\ k = Len(s) => i = Len(t)
      BY <1>2, <1>3
    <3>2. Fits(s, k, g) /\ ArmsNow(s, k, d) /\ t[i] = s[k]
      BY <1>2, <1>3, <3>1 DEF Ready
    <3>3. s[1][1] \notin {"dma0_stop", "dma0_window", "window_write", "siggen_stop"}
      BY <1>2
    <3>4. /\ i > 1 => t[i - 1] = s[k - 1]
          /\ i > 2 => t[i - 2] = s[k - 2]
          /\ k < Len(s) => t[i + 1] = s[k + 1]
      BY <1>2, <3>1
    <3> HIDE DEF k
    <3> QED
      BY <3>1, <3>2, <3>3, <3>4
  <2>2. ASSUME NEW v, Spared(s, k, g, v) PROVE Spared(t, i, g, v)
    <3>1. CASE \E j \in 1 .. (k - 1) : s[j][1] = "siggen_stop" /\ s[j][2] \in {0, v}
      <4>1. PICK j \in 1 .. (k - 1) : s[j][1] = "siggen_stop" /\ s[j][2] \in {0, v}
        BY <3>1
      <4>2. j # 1
        BY <2>1, <4>1
      <4>3. j - 1 \in 1 .. (i - 1) /\ j - 1 \in 1 .. Len(t) /\ t[j - 1] = s[j]
        BY <1>2, <1>3, <4>1, <4>2
      <4> QED
        BY <4>1, <4>3 DEF Spared
    <3> QED
      BY <2>2, <3>1 DEF Spared
  <2>3. Do("siggen_stop")[1] = "siggen_stop"
    BY DEF Do, Call, OrElse
  <2> HIDE DEF k
  <2>4. i = 1 => t[i][1] # "siggen_start"
    BY <2>1, <2>3 DEF Fits
  <2>5. Fits(t, i, g)
    BY <2>1, <2>2, <2>4 DEF Fits
  <2>6. Arms(t, i)
    <3>1. /\ k \in Nat /\ i \in Nat /\ i >= 1 /\ k > 1 /\ (i > 1 => k > 2) /\ k # 1
          /\ i # 1 => i > 1
          /\ i > 2 => k # 2
      BY <2>1
    <3>2. ArmsNow(s, k, d) /\ t[i] = s[k]
      BY <2>1
    <3>3. t[i][1] = "dma0_window" => /\ i > 1 /\ t[i - 1][1] = "dma0_stop"
                                     /\ t[i][2] \in Spans \ {None}
      <4>1. s[k][1] = "dma0_window" => s[k - 1][1] = "dma0_stop" /\ s[k][2] \in Spans \ {None}
        BY <3>1, <3>2 DEF ArmsNow
      <4>2. s[k][1] = "dma0_window" => i # 1
        BY <2>1, <4>1
      <4> QED
        BY <2>1, <3>1, <4>1, <4>2
    <3>4. t[i][1] = "dma0_enable" => /\ i > 2 /\ t[i - 1][1] = "window_write"
                                     /\ t[i - 2][1] = "dma0_window" /\ t[i - 2][2] = t[i][2][1]
      <4>1. CASE k > 2
        <5>1. s[k][1] = "dma0_enable" =>
                /\ s[k - 1][1] = "window_write" /\ s[k - 2][1] = "dma0_window"
                /\ s[k - 2][2] = s[k][2][1]
          BY <3>2, <4>1 DEF ArmsNow
        <5>2. s[k][1] = "dma0_enable" => i # 1 /\ i # 2
          BY <2>1, <4>1, <5>1
        <5>3. i # 1 /\ i # 2 => i > 1 /\ i > 2
          BY <2>1
        <5> QED
          BY <2>1, <5>1, <5>2, <5>3
      <4>2. CASE ~(k > 2)
        <5>1. k = 2 /\ ~(i > 1)
          BY <3>1, <4>2
        <5>2. s[1][1] # "window_write"
          BY <2>1
        <5> QED
          BY <3>2, <5>1, <5>2 DEF ArmsNow
      <4> QED
        BY <4>1, <4>2
    <3> QED
      BY <3>3, <3>4 DEF Arms
  <2> QED
    BY <2>4, <2>5, <2>6
<1> QED
  BY <1>2, <1>3 DEF Clean, IsSequence, t
----------------------------------------------------------------------------
(* The calls the commands are made of. *)
Sound(s, g) == Clean(s, g) /\ Quiet(s)

LEMMA SoundJoin ==
  ASSUME NEW s, NEW t, NEW g, Sound(s, g), Sound(t, g) PROVE Sound(s \o t, g)
<1>1. t # <<>> => t[1][1] # "siggen_start"
  <2>1. t # <<>> => 1 \in 1 .. Len(t)
    <3>1. IsSequence(t)
      BY DEF Sound, Clean
    <3> QED
      BY <3>1, Joining
  <2> QED
    BY <2>1 DEF Sound, Quiet
<1> QED
  BY <1>1, CleanJoin DEF Sound

LEMMA SimplesSound == ASSUME NEW s, Simples(s) PROVE \A g : Sound(s, g)
  BY SimplesClean DEF Sound

LEMMA FallsBack ==
  <<>> \in Fallbacks /\ NotOk \in Fallbacks /\ ChainUndone \in Fallbacks /\ ChainStart \in Fallbacks
  BY DEF Fallbacks

(* Some simple calls in a row. *)
LEMMA Rows ==
  ASSUME NEW a, NEW b, NEW c, NEW d, NEW e, NEW f, NEW h,
         Simple(a), Simple(b), Simple(c), Simple(d), Simple(e), Simple(f), Simple(h)
  PROVE  \A g : /\ Sound(<<>>, g) /\ Sound(<<a>>, g) /\ Sound(<<a, b>>, g)
                /\ Sound(<<a, b, c>>, g) /\ Sound(<<a, b, c, d, e>>, g)
                /\ Sound(<<a, b, c, d, e, f, h>>, g)
<1> DEFINE S == {a, b, c, d, e, f, h}
<1>1. \A s \in Seq(S) : Simples(s)
  <2> SUFFICES ASSUME NEW s \in Seq(S) PROVE Simples(s)
    OBVIOUS
  <2>1. \A i \in 1 .. Len(s) : s[i] \in S
    OBVIOUS
  <2>2. \A x \in S : Simple(x)
    OBVIOUS
  <2> HIDE DEF S
  <2> QED
    BY <2>1, <2>2 DEF Simples, IsSequence
<1>2. /\ <<>> \in Seq(S) /\ <<a>> \in Seq(S) /\ <<a, b>> \in Seq(S) /\ <<a, b, c>> \in Seq(S)
      /\ <<a, b, c, d, e>> \in Seq(S) /\ <<a, b, c, d, e, f, h>> \in Seq(S)
  OBVIOUS
<1> HIDE DEF S
<1> QED
  BY <1>1, <1>2, SimplesSound

(* A call is simple by its name, unless it names a fallback or a skip. *)
Plain(f) == f \notin GenCalls \cup {"half", "siggen_start", "dac_unit_off", "dac_enable",
                                    "dma0_window", "dma0_enable"}
LEMMA SimpleCalls ==
  ASSUME NEW f, Plain(f)
  PROVE  /\ \A x : Simple(Call(f, x))
         /\ Simple(Do(f))
         /\ \A x : \A e \in Fallbacks : Simple(Note(f, x, e)) /\ Simple(OrElse(f, x, Everything, e))
  BY FallsBack DEF Plain, Simple, Do, Call, Note, OrElse

LEMMA DacOffSound ==
  ASSUME NEW u \in Units, NEW g, g # u PROVE Sound(dac_off(u), g)
<1> DEFINE s == dac_off(u)
<1>1. /\ s \in Seq({s[1], s[2]}) /\ Len(s) = 2
      /\ s[1][1] = "dac_unit_off" /\ s[1][2] = u /\ s[1][3] = 0 /\ s[1][4] = <<>>
      /\ s[2][1] = "dac_light_off" /\ s[2][3] = 0 /\ s[2][4] = <<>>
  BY DEF dac_off, Call, Do, OrElse
<1> HIDE DEF s
<1>2. ASSUME NEW i \in 1 .. Len(s) PROVE Fits(s, i, g) /\ Arms(s, i) /\ s[i][1] # "siggen_start"
  <2>1. i \in {1, 2}
    BY <1>1
  <2>2. Spared(s, i, g, u)
    BY DEF Spared
  <2> QED
    BY <1>1, <2>1, <2>2, FallsBack DEF Fits, Arms, GenCalls
<1>3. IsSequence(s)
  BY <1>1 DEF IsSequence
<1> QED
  BY <1>2, <1>3 DEF Sound, Clean, Quiet, s

LEMMA DacStartSound ==
  ASSUME NEW u \in Units, NEW g, NEW how \in {"level", "triangle"}, how = "level" \/ g # u,
         NEW skip \in {1, Everything}, NEW els \in Fallbacks
  PROVE  Sound(dac_start(u, how, skip, els), g)
<1> DEFINE s == dac_start(u, how, skip, els)
<1>1. /\ s \in Seq({s[1], s[2]}) /\ Len(s) = 2
      /\ s[1][1] = "clock_dac_on" /\ s[1][3] = skip /\ s[1][4] = els
      /\ s[2][1] = "dac_enable" /\ s[2][2] = <<u, how>> /\ s[2][3] = 0 /\ s[2][4] = <<>>
  <2> DEFINE a == OrElse("clock_dac_on", 0, skip, els)
             b == Call("dac_enable", <<u, how>>)
  <2>1. a[1] = "clock_dac_on" /\ a[3] = skip /\ a[4] = els
    BY DEF OrElse
  <2>2. b[1] = "dac_enable" /\ b[2] = <<u, how>> /\ b[3] = 0 /\ b[4] = <<>>
    BY DEF Call, OrElse
  <2>3. s = <<a, b>>
    BY DEF dac_start
  <2> HIDE DEF a, b, s
  <2>4. s \in Seq({a, b}) /\ Len(s) = 2 /\ s[1] = a /\ s[2] = b
    BY <2>3
  <2> QED
    BY <2>1, <2>2, <2>4
<1> HIDE DEF s
<1>2. ASSUME NEW i \in 1 .. Len(s) PROVE Fits(s, i, g) /\ Arms(s, i) /\ s[i][1] # "siggen_start"
  <2>1. i \in {1, 2}
    BY <1>1
  <2>2. CASE i = 1
    BY <1>1, <2>2, FallsBack DEF Fits, Arms, GenCalls
  <2>3. CASE i = 2
    <3>1. how = "level" \/ Spared(s, i, g, u)
      BY DEF Spared
    <3>2. s[i][2] \in Units \X {"level", "triangle"} /\ s[i][2][1] = u /\ s[i][2][2] = how
      <4>1. s[i][2] = <<u, how>>
        BY <1>1, <2>3
      <4> QED
        BY <4>1
    <3> QED
      BY <1>1, <2>3, <3>1, <3>2, FallsBack DEF Fits, Arms, GenCalls
  <2> QED
    BY <2>1, <2>2, <2>3
<1>3. IsSequence(s)
  BY <1>1 DEF IsSequence
<1> QED
  BY <1>2, <1>3 DEF Sound, Clean, Quiet, s

LEMMA ArmSound ==
  ASSUME NEW range \in Spans \ {None}, NEW pair, NEW g PROVE Sound(Arm(range, pair), g)
<1> DEFINE s == Arm(range, pair)
<1>1. /\ s \in Seq({s[1], s[2], s[3], s[4], s[5]}) /\ Len(s) = 5
      /\ s[1][1] = "dma_off_if_idle" /\ s[2][1] = "dma0_stop"
      /\ s[3][1] = "dma0_window" /\ s[3][2] = range
      /\ s[4][1] = "window_write"
      /\ s[5][1] = "dma0_enable" /\ s[5][2] = <<range, pair>>
      /\ \A i \in 1 .. 5 : s[i][3] = 0 /\ s[i][4] = <<>>
  BY DEF Arm, Call, Do, OrElse
<1> HIDE DEF s
<1>2. ASSUME NEW i \in 1 .. Len(s) PROVE Fits(s, i, g) /\ Arms(s, i) /\ s[i][1] # "siggen_start"
  <2>1. i \in {1, 2, 3, 4, 5}
    BY <1>1
  <2> QED
    BY <1>1, <2>1, FallsBack DEF Fits, Arms, GenCalls
<1>3. IsSequence(s)
  BY <1>1 DEF IsSequence
<1> QED
  BY <1>2, <1>3 DEF Sound, Clean, Quiet, s

LEMMA HalfSound ==
  ASSUME NEW h \in Halves, NEW g
  PROVE  /\ Sound(<<Call("half", h)>>, g)
         /\ Sound(dma0_init(h), g) /\ Sound(dma0_pp_init(h), g)
<1>1. h \in Nat \ {0} /\ BufFirst \in Nat \ {0}
  BY BoardAssumption
<1>2. /\ <<BufFirst, BufFirst + 2 * h - 1>> \in Spans \ {None}
      /\ <<BufFirst, BufFirst + 4 * h - 1>> \in Spans \ {None}
  BY <1>1 DEF Spans, None
<1>3. Sound(<<Call("half", h)>>, g)
  <2> DEFINE s == <<Call("half", h)>>
  <2>1. s \in Seq({s[1]}) /\ Len(s) = 1 /\ s[1][1] = "half" /\ s[1][2] = h /\ s[1][3] = 0
        /\ s[1][4] = <<>>
    BY DEF Call, OrElse
  <2> HIDE DEF s
  <2>2. ASSUME NEW i \in 1 .. Len(s) PROVE Fits(s, i, g) /\ Arms(s, i) /\ s[i][1] # "siggen_start"
    BY <2>1, FallsBack DEF Fits, Arms, GenCalls
  <2>3. IsSequence(s)
    BY <2>1 DEF IsSequence
  <2> QED
    BY <2>2, <2>3 DEF Sound, Clean, Quiet, s
<1> QED
  BY <1>2, <1>3, ArmSound DEF dma0_init, dma0_pp_init
(* The parts of the stream's set-up, for a generator on any DAC. *)
LEMMA Parts ==
  ASSUME NEW g
  PROVE  /\ Sound(<<>>, g)
         /\ \A f : Plain(f) => \A x : Sound(<<Do(f)>>, g) /\ Sound(<<Call(f, x)>>, g)
         /\ Sound(dma0_deinit, g)
         /\ \A core : Sound(capture_select_core(core), g)
         /\ \A p : \A e \in Fallbacks : Sound(capture_set_pll(p, e), g)
         /\ Sound(capture_chain_stop, g)
         /\ Sound(NotOk, g)
<1> DEFINE z == Do("settle")
<1>1. \A f : Plain(f) => /\ Simple(Do(f)) /\ \A x : Simple(Call(f, x))
                         /\ \A x : \A e \in Fallbacks : Simple(Note(f, x, e))
  BY SimpleCalls
<1>2. \A f \in {"settle", "dma0_stop", "dma_off_if_idle", "core_down", "adc_init", "capture_init",
                "powered", "adc_deinit", "clock_adc_set_pll", "adc_reinit", "restart",
                "sccp1_stop", "ok"} : Plain(f)
  BY DEF Plain, GenCalls
<1>3. Simple(z)
  BY <1>1, <1>2
<1> HIDE DEF z
<1>4. ASSUME NEW f, Plain(f), NEW x PROVE Sound(<<Do(f)>>, g) /\ Sound(<<Call(f, x)>>, g)
  BY <1>1, <1>3, <1>4, Rows
<1>5. Sound(dma0_deinit, g)
  BY <1>1, <1>2, <1>3, Rows DEF dma0_deinit
<1>6. ASSUME NEW core PROVE Sound(capture_select_core(core), g)
  <2>1. Simple(Do("settle")) /\ Simple(Do("core_down")) /\ Simple(Call("adc_init", core))
        /\ Simple(Do("capture_init")) /\ Simple(Call("powered", TRUE))
    BY <1>1, <1>2
  <2> QED
    BY <2>1, <1>3, Rows DEF capture_select_core
<1>7. ASSUME NEW p, NEW e \in Fallbacks PROVE Sound(capture_set_pll(p, e), g)
  <2>1. Simple(Do("settle")) /\ Simple(Do("adc_deinit")) /\ Simple(Note("clock_adc_set_pll", p, e))
        /\ Simple(Note("adc_reinit", 0, e)) /\ Simple(Do("restart"))
    BY <1>1, <1>2
  <2> QED
    BY <2>1, <1>3, Rows DEF capture_set_pll
<1>8. Sound(capture_chain_stop, g)
  BY <1>1, <1>2, <1>3, Rows DEF capture_chain_stop
<1>9. Sound(NotOk, g)
  BY <1>2, <1>4 DEF NotOk
<1> QED
  BY <1>3, <1>4, <1>5, <1>6, <1>7, <1>8, <1>9, Rows

LEMMA RestoreSound ==
  ASSUME NEW g PROVE Sound(acq_chain_restore, g) /\ Sound(Undone, g) /\ Sound(ChainUndone, g)
<1>1. \A f \in {"settle", "sccp1_stop", "sccp1_count", "adc_ch0_irq", "step_on", "restore_dac2",
                "clock_dac_select", "route"} : Plain(f)
  BY DEF Plain, GenCalls
<1> DEFINE s == <<Do("settle"), Do("sccp1_stop"), Call("sccp1_count", FALSE),
                  Call("adc_ch0_irq", FALSE), Call("step_on", FALSE), Do("restore_dac2"),
                  Call("clock_dac_select", "pll1")>>
<1>2. /\ Simple(Do("settle")) /\ Simple(Do("sccp1_stop")) /\ Simple(Call("sccp1_count", FALSE))
      /\ Simple(Call("adc_ch0_irq", FALSE)) /\ Simple(Call("step_on", FALSE))
      /\ Simple(Do("restore_dac2")) /\ Simple(Call("clock_dac_select", "pll1"))
  BY <1>1, SimpleCalls
<1>3. Sound(s, g)
  BY <1>2, Rows
<1>4. acq_chain_restore = (s \o capture_select_core("boot")) \o capture_set_pll("board", <<>>)
  BY DEF acq_chain_restore
<1> HIDE DEF s
<1>5. Sound(s \o capture_select_core("boot"), g)
  BY <1>3, Parts, SoundJoin
<1>6. Sound(capture_set_pll("board", <<>>), g)
  BY Parts, FallsBack
<1>7. Sound(acq_chain_restore, g)
  BY <1>4, <1>5, <1>6, SoundJoin
<1>8. Sound(<<Call("route", "none")>>, g) /\ Sound(<<Do("settle")>>, g)
  BY <1>1, Parts
<1>9. Sound(Undone, g)
  BY <1>7, <1>8, SoundJoin DEF Undone
<1> QED
  BY <1>7, <1>8, <1>9, SoundJoin DEF ChainUndone

LEMMA StartSound ==
  ASSUME NEW g PROVE Sound(ChainStart, g)
<1>1. \A f \in {"settle", "chain", "capture_init", "run", "sccp1_start", "stream"} : Plain(f)
  BY DEF Plain, GenCalls
<1> DEFINE c == capture_chain_start(Everything, Undone)
<1>2. /\ Simple(Do("settle")) /\ Simple(Call("chain", TRUE)) /\ Simple(Do("capture_init"))
      /\ Simple(Call("run", TRUE)) /\ Simple(OrElse("sccp1_start", 0, Everything, ChainUndone))
  BY <1>1, SimpleCalls, FallsBack
<1>3. Sound(c, g)
  BY <1>2, Rows DEF capture_chain_start, ChainUndone
<1>4. Sound(<<Call("stream", TRUE)>>, g)
  BY <1>1, Parts
<1> HIDE DEF c
<1>5. ChainStart = c \o <<Call("stream", TRUE)>>
  BY DEF ChainStart, c
<1> QED
  BY <1>3, <1>4, <1>5, SoundJoin

(* Whatever a failed call falls back on is sound. *)
LEMMA FallbacksSound == \A e \in Fallbacks : \A g : Sound(e, g)
  BY Parts, RestoreSound, StartSound DEF Fallbacks

LEMMA SetupSound ==
  ASSUME NEW core, NEW signal \in BOOLEAN, NEW h \in Halves, NEW g
  PROVE  Sound(acq_chain_setup(core, signal, h), g)
<1>1. \A f \in {"ok", "settle", "sccp1_stop", "clock_trig_on", "clock_dac_select",
                "adc_set_mode_single", "adc_set_irqsel"} : Plain(f)
  BY DEF Plain, GenCalls
<1> DEFINE a == <<Call("ok", TRUE), Do("settle"), Do("sccp1_stop"), Call("half", h)>>
           b == capture_set_pll("chain", NotOk)
           c == <<Note("clock_trig_on", "on", NotOk), Call("clock_dac_select", "pll1")>>
           d == IF signal THEN dac_start(2, "level", 1, NotOk) ELSE <<>>
           e == <<Call("adc_set_mode_single", "sccp1"), Call("adc_set_irqsel", 0), Do("settle")>>
           k == capture_select_core(core)
<1>2. acq_chain_setup(core, signal, h) = ((a \o b) \o c) \o d \o (k \o e)
  BY DEF acq_chain_setup
<1>3. Sound(a, g)
  <2>1. /\ Simple(Call("ok", TRUE)) /\ Simple(Do("settle")) /\ Simple(Do("sccp1_stop"))
    BY <1>1, SimpleCalls
  <2>2. Sound(<<Call("ok", TRUE), Do("settle"), Do("sccp1_stop")>>, g)
    BY <2>1, Rows
  <2>3. Sound(<<Call("half", h)>>, g)
    BY HalfSound
  <2>4. a = <<Call("ok", TRUE), Do("settle"), Do("sccp1_stop")>> \o <<Call("half", h)>>
    <3>1. \A p, q, r, w : <<p, q, r, w>> = <<p, q, r>> \o <<w>>
      <4> SUFFICES ASSUME NEW p, NEW q, NEW r, NEW w
                   PROVE  <<p, q, r, w>> = <<p, q, r>> \o <<w>>
        OBVIOUS
      <4> DEFINE m == <<p, q, r, w>>
                 n == <<p, q, r>> \o <<w>>
                 S == {p, q, r, w}
      <4>1. m \in Seq(S) /\ Len(m) = 4 /\ m[1] = p /\ m[2] = q /\ m[3] = r /\ m[4] = w
        OBVIOUS
      <4>2. n \in Seq(S) /\ Len(n) = 4 /\ n[1] = p /\ n[2] = q /\ n[3] = r /\ n[4] = w
        <5>1. <<p, q, r>> \in Seq(S) /\ <<w>> \in Seq(S) /\ Len(<<p, q, r>>) = 3 /\ Len(<<w>>) = 1
          OBVIOUS
        <5> QED
          BY <5>1
      <4> HIDE DEF m, n, S
      <4>3. \A i \in 1 .. 4 : m[i] = n[i]
        BY <4>1, <4>2
      <4> QED
        BY <4>1, <4>2, <4>3, SeqEqual DEF m, n
    <3> QED
      BY <3>1
  <2> QED
    BY <2>2, <2>3, <2>4, SoundJoin
<1>4. Sound(b, g)
  BY Parts, FallsBack
<1>5. Sound(c, g)
  <2>1. Simple(Note("clock_trig_on", "on", NotOk)) /\ Simple(Call("clock_dac_select", "pll1"))
    BY <1>1, SimpleCalls, FallsBack
  <2> QED
    BY <2>1, Rows
<1>6. Sound(d, g)
  BY Parts, DacStartSound, FallsBack DEF Units
<1>7. Sound(k, g)
  BY Parts
<1>8. Sound(e, g)
  <2>1. Simple(Call("adc_set_mode_single", "sccp1")) /\ Simple(Call("adc_set_irqsel", 0))
        /\ Simple(Do("settle"))
    BY <1>1, SimpleCalls
  <2> QED
    BY <2>1, Rows
<1> HIDE DEF a, b, c, d, e, k
<1>9. Sound((a \o b) \o c, g) /\ Sound(k \o e, g)
  <2>1. Sound(a \o b, g)
    BY <1>3, <1>4, SoundJoin
  <2> QED
    BY <2>1, <1>5, <1>7, <1>8, SoundJoin
<1>10. Sound(((a \o b) \o c) \o d, g)
  BY <1>6, <1>9, SoundJoin
<1> QED
  BY <1>2, <1>9, <1>10, SoundJoin
----------------------------------------------------------------------------
(* The invariant.  Between its calls the generator is all there or not     *)
(* there at all.                                                           *)
Idle    == ~sccp.two /\ ~dma.ch2 /\ claim = 0
Level(u) == dac[u] = "level" /\ clk.dac # "off"
Runs(u) == sccp.two /\ dma.on /\ dma.ch2 /\ dma.to = u /\ Level(u)
Playing == gen \in Units /\ Runs(gen) /\ claim = gen
Silent  == gen = 0 /\ Idle
Calm    == Ready(todo, gen, dma) /\ (Playing \/ Silent)

(* The calls of a stop, and of a start that is undone, before t.           *)
Push(c, t) == <<c>> \o t
Shrink(t)  == Push(Do("window_write"), t)
Off3(t) == Push(Do("dma2_window_back"), t)
Off2(t) == Push(Call("dma2_window", None), Off3(t))
Off1(t) == Push(Do("dma2_stop"), Off2(t))
Off0(t) == Push(Do("sccp2_stop"), Off1(t))
Gone1(t) == Push(Call("gen", 0), t)
Gone0(t) == Push(Call("claim", 0), Gone1(t))
Dark1(t) == Push(Do("dac_light_off"), t)
Dark0(u, t) == Push(Call("dac_unit_off", u), Dark1(t))

(* A start's timer that did not come up ends with its DAC, a stop with the *)
(* claim and the calls after it.                                           *)
Ends(t) ==
  \E u \in Units :
    \/ gen = 0 /\ claim = 0 /\ t = Dark0(u, <<>>)
    \/ gen = u /\ \E r : Clean(r, 0) /\ t = Dark0(u, Gone0(r))
Unwinding ==
  \E t : /\ IsSequence(t) /\ Ends(t)
         /\ \/ todo = Off0(t) /\ (sccp.two /\ dma.ch2 => dma.to \in Units /\ Runs(dma.to))
            \/ todo = Off1(t) /\ ~sccp.two
            \/ todo \in {Off2(t), Off3(t), Shrink(t)} /\ ~sccp.two /\ ~dma.ch2
Leaving ==
  /\ ~sccp.two /\ ~dma.ch2
  /\ \E u \in Units : \E r :
       /\ gen = u /\ Clean(r, 0)
       /\ \/ todo \in {Dark0(u, Gone0(r)), Dark1(Gone0(r)), Gone0(r)}
          \/ todo = Gone1(r) /\ claim = 0

(* The calls of a start on DAC u from the table at r. *)
Undo(u) == <<Do("sccp2_stop")>> \o dma_tx_stop \o dac_off(u)
On9(u) == Push(Call("gen", u), <<>>)
On8(u) == Push(Call("claim", u), On9(u))
On7(u) == Push(Try("sccp2_start", 0, Undo(u)), On8(u))
On6(u, r) == Push(Try("dma2_enable", <<r, u>>, dac_off(u)), On7(u))
On5(u, r) == Push(Do("window_write"), On6(u, r))
On4(u, r) == Push(Call("dma2_window", r), On5(u, r))
On3(u, r) == Push(Do("dma2_stop"), On4(u, r))
On2(u, r) == Push(Call("unask", u), On3(u, r))
On1(u, r) == Push(Call("dac_enable", <<u, "level">>), On2(u, r))
On0(u, r) == Push(OrElse("clock_dac_on", 0, Everything, <<>>), On1(u, r))
Starting ==
  gen = 0 /\ \E u \in Units, r \in Spans \ {None} :
    \/ todo = On0(u, r) /\ Idle
    \/ todo = On1(u, r) /\ Idle /\ clk.dac # "off"
    \/ todo \in {On2(u, r), On3(u, r), On4(u, r)} /\ Idle /\ Level(u)
    \/ todo = On5(u, r) /\ Idle /\ Level(u) /\ dma.win1 = r
    \/ todo = On6(u, r) /\ Idle /\ Level(u) /\ dma.win1 = r /\ Within(r, dma.window)
    \/ todo = On7(u) /\ dma.on /\ dma.ch2 /\ dma.to = u /\ Level(u) /\ ~sccp.two /\ claim = 0
    \/ todo = On8(u) /\ Runs(u) /\ claim = 0
    \/ todo = On9(u) /\ Runs(u) /\ claim = u

(* A channel that is on moves data where the driver has noted that it does *)
(* and within the window.                                                  *)
Windows ==
  /\ dma.window \in Spans /\ dma.win0 \in Spans /\ dma.win1 \in Spans
  /\ dma.ch0 => dma.win0 # None /\ dma.range0 = dma.win0 /\ Within(dma.win0, dma.window)
  /\ dma.ch2 => dma.win1 # None /\ dma.range2 = dma.win1 /\ Within(dma.win1, dma.window)
Typed ==
  /\ table \in Tables /\ cap.half \in Halves /\ "half" \in DOMAIN cap
  /\ {"on", "window", "win0", "win1", "ch0", "pair", "range0", "ch2", "range2", "to"}
       \subseteq DOMAIN dma
  /\ "dac" \in DOMAIN clk /\ "two" \in DOMAIN sccp /\ Units \subseteq DOMAIN dac
SessionInv == Typed /\ Windows /\ (Calm \/ Unwinding \/ Leaving \/ Starting)

(* What the running command goes on with. *)
LEMMA GoesOn ==
  ASSUME Ready(todo, gen, dma), NEW f, Now(f),
         f \notin {"dma0_stop", "dma0_window", "window_write", "siggen_stop"}
  PROVE  /\ Done \/ Failed => Clean(todo', gen)
         /\ \A q : Sound(q, gen) => /\ Instead(q) => Clean(todo', gen)
                                    /\ Leave(q) => Clean(todo', gen)
<1> DEFINE rest == Tail(todo)
<1>1. /\ todo # <<>> /\ Head(todo)[1] = f
      /\ Clean(rest, gen) /\ (rest # <<>> => rest[1][1] # "siggen_start")
  BY Popped DEF Now
<1>2. PICK S : todo \in Seq(S)
  BY DEF Ready, IsSequence
<1>3. Head(todo) = todo[1] /\ Len(todo) \in Nat /\ Len(todo) > 0 /\ Fits(todo, 1, gen)
  BY <1>1, <1>2 DEF Ready
<1> HIDE DEF rest
<1>4. ASSUME NEW q, Sound(q, gen) PROVE Clean(q \o rest, gen) /\ Clean(q, gen)
  BY <1>1, <1>4, CleanJoin DEF Sound
<1>5. ASSUME Failed PROVE Clean(todo', gen)
  <2> DEFINE k == Head(todo)[3]
             e == Head(todo)[4]
             tl == IF k = Everything THEN <<>> ELSE SubSeq(todo, 2 + k, Len(todo))
  <2>1. todo' = e \o tl
    BY <1>5 DEF Failed
  <2>2. k \in {0, 1, Everything} /\ e \in Fallbacks
        /\ (k = 1 => 1 < Len(todo) /\ todo[2][1] = "dac_enable")
    BY <1>3 DEF Fits
  <2>3. Sound(e, gen)
    BY <2>2, FallbacksSound
  <2>4. CASE k = Everything
    <3>1. tl = <<>>
      BY <2>4
    <3>2. Clean(e \o <<>>, gen)
      <4>1. Sound(<<>>, gen)
        BY Parts
      <4> QED
        BY <2>3, <4>1, SoundJoin DEF Sound
    <3> QED
      BY <2>1, <3>1, <3>2
  <2>5. CASE k = 0
    <3>1. tl = rest
      BY <1>2, <1>3, <2>5 DEF rest, Everything
    <3> QED
      BY <1>4, <2>1, <2>3, <3>1
  <2>6. CASE k = 1
    <3>1. tl = Tail(rest) /\ rest # <<>> /\ Head(rest) = todo[2]
      <4>1. /\ rest \in Seq(S) /\ Len(rest) = Len(todo) - 1 /\ Len(rest) > 0
            /\ \A i \in 1 .. Len(rest) : rest[i] = todo[i + 1]
        BY <1>2, <1>3, <2>2, <2>6 DEF rest
      <4>2. rest # <<>> /\ Head(rest) = todo[2]
        BY <4>1
      <4>3. tl = SubSeq(todo, 3, Len(todo))
        BY <2>6 DEF Everything
      <4>4. /\ SubSeq(todo, 3, Len(todo)) \in Seq(S) /\ Len(SubSeq(todo, 3, Len(todo))) = Len(todo) - 2
            /\ \A i \in 1 .. (Len(todo) - 2) : SubSeq(todo, 3, Len(todo))[i] = todo[i + 2]
        <5>1. Len(todo) \in Int /\ Len(todo) >= 2 /\ \A i \in 3 .. Len(todo) : todo[i] \in S
          BY <1>2, <1>3, <2>2, <2>6
        <5>2. SubSeq(todo, 3, Len(todo)) \in Seq(S)
              /\ Len(SubSeq(todo, 3, Len(todo))) = (IF 3 <= Len(todo) THEN Len(todo) - 3 + 1 ELSE 0)
              /\ \A i \in 1 .. (Len(todo) - 3 + 1) : SubSeq(todo, 3, Len(todo))[i] = todo[3 + i - 1]
          BY <1>2, <5>1, SubSeqProperties
        <5>3. Len(todo) - 3 + 1 = Len(todo) - 2 /\ \A i \in 1 .. (Len(todo) - 2) : 3 + i - 1 = i + 2
          BY <1>3
        <5> QED
          BY <5>1, <5>2, <5>3
      <4>5. /\ Tail(rest) \in Seq(S) /\ Len(Tail(rest)) = Len(todo) - 2
            /\ \A i \in 1 .. (Len(todo) - 2) : Tail(rest)[i] = rest[i + 1] /\ i + 1 \in 1 .. Len(rest)
        BY <1>3, <4>1
      <4>6. \A i \in 1 .. (Len(todo) - 2) : rest[i + 1] = todo[i + 2]
        <5>1. \A i \in 1 .. (Len(todo) - 2) : rest[i + 1] = todo[(i + 1) + 1] /\ (i + 1) + 1 = i + 2
          BY <1>3, <4>1, <4>5
        <5> QED
          BY <5>1
      <4> DEFINE a == SubSeq(todo, 3, Len(todo))
                 b == Tail(rest)
      <4>7. a \in Seq(S) /\ b \in Seq(S) /\ Len(a) = Len(b) /\ \A i \in 1 .. Len(a) : a[i] = b[i]
        BY <1>3, <4>4, <4>5, <4>6
      <4> HIDE DEF a, b
      <4>8. a = b
        BY <4>7, SeqEqual
      <4> QED
        BY <4>2, <4>3, <4>8 DEF a, b
    <3>2. Ready(rest, gen, dma)
      BY <1>1, CleanReady
    <3>3. Clean(tl, gen) /\ (tl # <<>> => tl[1][1] # "siggen_start")
      BY <2>2, <2>6, <3>1, <3>2, Popped
    <3> HIDE DEF tl, e
    <3> QED
      BY <2>1, <2>3, <3>3, CleanJoin DEF Sound
  <2> QED
    BY <2>2, <2>4, <2>5, <2>6
<1> QED
  BY <1>1, <1>4, <1>5 DEF Done, Instead, Leave, rest

(* A call that leaves the generator, the DMA and the DACs as they are.     *)
Still ==
  /\ UNCHANGED <<dma, dac, table, gen, claim>>
  /\ sccp'.two = sccp.two /\ "two" \in DOMAIN sccp'
  /\ clk'.dac = clk.dac /\ "dac" \in DOMAIN clk'
  /\ cap'.half \in Halves /\ "half" \in DOMAIN cap'

LEMMA CalmStill ==
  ASSUME Typed, Windows, Playing \/ Silent, Still, Clean(todo', gen) PROVE SessionInv'
<1>1. Ready(todo', gen', dma')
  BY CleanReady DEF Still
<1>2. Typed' /\ Windows'
  BY DEF Typed, Windows, Still, Within
<1>3. (Playing \/ Silent)'
  BY DEF Playing, Silent, Idle, Runs, Level, Still
<1> QED
  BY <1>1, <1>2, <1>3 DEF SessionInv, Calm
(* The driver calls of the ADC, its clock and SCCP1. *)
OtherDriver ==
  \/ clock_dac_select \/ uref_set \/ sccp1_start \/ sccp1_stop \/ sccp1_count
  \/ adc_deinit \/ adc_set_input \/ adc_set_mode_burst \/ adc_set_mode_single
  \/ adc_set_irqsel \/ adc_ch0_irq \/ step_on \/ adc_reinit \/ adc_init
  \/ adc_set_mode_oversample \/ adc_set_trg2 \/ adc_set_period
  \/ clock_adc_set_pll \/ clock_adc_set_div \/ clock_trig_on \/ clock_adc_gate
Others == {"clock_dac_select", "uref", "sccp1_start", "sccp1_stop", "sccp1_count",
           "adc_deinit", "adc_set_input", "adc_set_mode_burst", "adc_set_mode_single",
           "adc_set_irqsel", "adc_ch0_irq", "step_on", "adc_reinit", "adc_init",
           "adc_set_mode_oversample", "adc_set_trg2", "adc_set_period",
           "clock_adc_set_pll", "clock_adc_set_div", "clock_trig_on", "clock_adc_gate"}

LEMMA OtherDriverIs ==
  ASSUME Typed, OtherDriver, UNCHANGED soft
  PROVE  Still /\ \E f \in Others : Now(f) /\ (Done \/ Failed \/ Leave(<<Do("panic")>>))
<1>1. CASE clock_dac_select \/ uref_set \/ sccp1_start \/ sccp1_stop \/ sccp1_count
  BY <1>1 DEF clock_dac_select, uref_set, sccp1_start, sccp1_stop, sccp1_count, Others, Still,
              Typed, soft
<1>2. CASE \/ adc_deinit \/ adc_set_input \/ adc_set_mode_burst \/ adc_set_mode_single
           \/ adc_set_irqsel \/ adc_ch0_irq \/ step_on
           \/ adc_set_mode_oversample \/ adc_set_trg2 \/ adc_set_period
  <2>1. \E f \in Others : \E new : Adc(f, new)
    BY <1>2 DEF adc_deinit, adc_set_input, adc_set_mode_burst, adc_set_mode_single,
                adc_set_irqsel, adc_ch0_irq, step_on, adc_set_mode_oversample,
                adc_set_trg2, adc_set_period, Others
  <2> QED
    BY <2>1 DEF Adc, Still, Typed, soft
<1>3. CASE adc_reinit \/ adc_init
  BY <1>3 DEF adc_reinit, adc_init, Others, Still, Typed, soft
<1>4. CASE clock_adc_set_pll \/ clock_adc_set_div \/ clock_trig_on \/ clock_adc_gate
  <2>1. \E f \in Others, field \in {"pll", "div", "trig", "adc"} : Switch(f, field)
    BY <1>4 DEF clock_adc_set_pll, clock_adc_set_div, clock_trig_on, clock_adc_gate, Others
  <2>2. PICK f \in Others, field \in {"pll", "div", "trig", "adc"} : Switch(f, field)
    BY <2>1
  <2>3. clk'.dac = clk.dac /\ "dac" \in DOMAIN clk'
    BY <2>2 DEF Switch, Typed
  <2> QED
    BY <2>2, <2>3 DEF Switch, Still, Typed, soft
<1> QED
  BY <1>1, <1>2, <1>3, <1>4 DEF OtherDriver

LEMMA CalmOther ==
  ASSUME Typed, Windows, Calm, OtherDriver, UNCHANGED soft PROVE SessionInv'
<1>1. Still
  BY OtherDriverIs
<1>2. PICK f \in Others : Now(f) /\ (Done \/ Failed \/ Leave(<<Do("panic")>>))
  BY OtherDriverIs
<1>3. Sound(<<Do("panic")>>, gen)
  BY Parts DEF Plain, GenCalls
<1>4. f \notin {"dma0_stop", "dma0_window", "window_write", "siggen_stop"}
  BY DEF Others
<1>5. Clean(todo', gen)
  BY <1>2, <1>3, <1>4, GoesOn DEF Calm
<1> QED
  BY <1>1, <1>5, CalmStill DEF Calm

(* What the call at the head of a command is known to be. *)
LEMMA AtHead ==
  ASSUME Ready(todo, gen, dma), todo # <<>>
  PROVE  /\ Fits(todo, 1, gen) /\ ArmsNow(todo, 1, dma) /\ Head(todo) = todo[1]
         /\ Arg = todo[1][2] /\ \A f : Now(f) <=> todo[1][1] = f
         /\ \A u : Spared(todo, 1, gen, u) <=> gen # u
<1>1. PICK S : todo \in Seq(S)
  BY DEF Ready, IsSequence
<1>2. Head(todo) = todo[1] /\ Len(todo) \in Nat /\ Len(todo) > 0
  BY <1>1
<1>3. \A u : Spared(todo, 1, gen, u) <=> gen # u
  BY DEF Spared
<1> QED
  BY <1>2, <1>3 DEF Ready, Arg, Now

(* The DACs and their clock: the one the generator plays on stays. *)
LEMMA CalmDac ==
  ASSUME Typed, Windows, Calm, UNCHANGED soft,
         clock_dac_on \/ dac_enable \/ dac_unit_off \/ dac_light_off
  PROVE  SessionInv'
<1>1. /\ todo # <<>>
      /\ UNCHANGED <<dma, sccp, table, gen, claim>> /\ cap' = cap
  BY DEF clock_dac_on, dac_enable, dac_unit_off, dac_light_off, Now, soft
<1>2. Clean(todo', gen)
  <2>1. \E f \in {"clock_dac_on", "dac_enable", "dac_unit_off", "dac_light_off"} : Now(f) /\ (Done \/ Failed)
    BY DEF clock_dac_on, dac_enable, dac_unit_off, dac_light_off
  <2> QED
    BY <2>1, GoesOn DEF Calm
<1>3. Typed' /\ Windows'
  <2>1. Units \subseteq DOMAIN dac' /\ "dac" \in DOMAIN clk'
    BY DEF clock_dac_on, dac_enable, dac_unit_off, dac_light_off, Typed
  <2> QED
    BY <1>1, <2>1 DEF Typed, Windows
<1>4. gen \in Units /\ Level(gen) => Level(gen)'
  <2> SUFFICES ASSUME gen \in Units, dac[gen] = "level", clk.dac # "off"
               PROVE  dac'[gen] = "level" /\ clk'.dac # "off"
    BY <1>1 DEF Level
  <2>1. CASE clock_dac_on
    BY <2>1 DEF clock_dac_on, Typed
  <2>2. CASE dac_enable
    <3>1. Fits(todo, 1, gen) /\ Arg = todo[1][2] /\ todo[1][1] = "dac_enable"
          /\ \A u : Spared(todo, 1, gen, u) <=> gen # u
      BY <1>1, <2>2, AtHead DEF Calm, dac_enable
    <3>2. Arg[1] \in Units /\ (Arg[2] = "level" \/ gen # Arg[1])
      BY <3>1 DEF Fits
    <3> QED
      BY <2>2, <3>2 DEF dac_enable, Typed
  <2>3. CASE dac_unit_off
    <3>1. Fits(todo, 1, gen) /\ Arg = todo[1][2] /\ todo[1][1] = "dac_unit_off"
          /\ \A u : Spared(todo, 1, gen, u) <=> gen # u
      BY <1>1, <2>3, AtHead DEF Calm, dac_unit_off
    <3>2. gen # Arg
      BY <3>1 DEF Fits
    <3> QED
      BY <2>3, <3>2 DEF dac_unit_off, Typed
  <2>4. CASE dac_light_off
    BY <2>4 DEF dac_light_off, AnyRunning
  <2> QED
    BY <2>1, <2>2, <2>3, <2>4
<1>5. (Playing \/ Silent)'
  BY <1>1, <1>4 DEF Calm, Playing, Silent, Idle, Runs, Level
<1> QED
  BY <1>1, <1>2, <1>3, <1>5, CleanReady DEF SessionInv, Calm
(* What follows a call of the window's set-up, with the DMA d2 it leaves.  *)
LEMMA PoppedReady ==
  ASSUME NEW s, NEW g, NEW d, NEW d2, Ready(s, g, d), s # <<>>, Head(s)[1] # "siggen_stop",
         Head(s)[1] = "dma0_stop" => ~d2.ch0,
         Head(s)[1] = "dma0_window" => d2.win0 = Head(s)[2],
         Head(s)[1] = "window_write" => d2.win0 = d.win0 /\ (d.win0 # None => Within(d2.win0, d2.window))
  PROVE  Ready(Tail(s), g, d2)
<1> DEFINE t == Tail(s)
<1>1. PICK S : s \in Seq(S)
  BY DEF Ready, IsSequence
<1>2. /\ t \in Seq(S) /\ Len(s) \in Nat /\ Len(s) > 0 /\ Len(t) = Len(s) - 1
      /\ \A i \in 1 .. Len(t) : i + 1 \in 1 .. Len(s) /\ t[i] = s[i + 1]
      /\ Head(s) = s[1]
  BY <1>1
<1> HIDE DEF t
<1>3. ASSUME NEW i \in 1 .. Len(t) PROVE Fits(t, i, g) /\ ArmsNow(t, i, d2)
  <2> DEFINE k == i + 1
  <2>1. /\ k \in 1 .. Len(s) /\ Fits(s, k, g) /\ ArmsNow(s, k, d) /\ t[i] = s[k]
        /\ Fits(s, 1, g) /\ ArmsNow(s, 1, d) /\ i \in Nat /\ i > 0
        /\ k > 1 /\ (i = 1 => k = 2 /\ s[k - 1] = s[1])
        /\ i = 2 => k > 2 /\ s[k - 2] = s[1] /\ k # 2
        /\ i > 1 => t[i - 1] = s[k - 1] /\ k > 2
        /\ i > 2 => t[i - 2] = s[k - 2]
        /\ k < Len(s) => i < Len(t) /\ t[i + 1] = s[k + 1]
        /\ k = Len(s) => i = Len(t)
    <3>1. /\ k \in 1 .. Len(s) /\ k > 1 /\ (i = 1 => k = 2 /\ k - 1 = 1) /\ i \in Nat /\ i > 0
          /\ i = 2 => k > 2 /\ k - 2 = 1 /\ k # 2
          /\ i > 1 => i - 1 \in 1 .. Len(t) /\ (i - 1) + 1 = k - 1 /\ k > 2
          /\ i > 2 => i - 2 \in 1 .. Len(t) /\ (i - 2) + 1 = k - 2
          /\ k < Len(s) => i < Len(t) /\ i + 1 \in 1 .. Len(t) /\ (i + 1) + 1 = k + 1
          /\ k = Len(s) => i = Len(t)
          /\ 1 \in 1 .. Len(s)
      BY <1>2, <1>3
    <3>2. Fits(s, k, g) /\ ArmsNow(s, k, d) /\ t[i] = s[k] /\ Fits(s, 1, g) /\ ArmsNow(s, 1, d)
      BY <1>2, <1>3, <3>1 DEF Ready
    <3>4. /\ i > 1 => t[i - 1] = s[k - 1]
          /\ i > 2 => t[i - 2] = s[k - 2]
          /\ k < Len(s) => t[i + 1] = s[k + 1]
      BY <1>2, <3>1
    <3> HIDE DEF k
    <3> QED
      BY <3>1, <3>2, <3>4
  <2>2. ASSUME NEW v, Spared(s, k, g, v) PROVE Spared(t, i, g, v)
    <3>1. CASE \E j \in 1 .. (k - 1) : s[j][1] = "siggen_stop" /\ s[j][2] \in {0, v}
      <4>1. PICK j \in 1 .. (k - 1) : s[j][1] = "siggen_stop" /\ s[j][2] \in {0, v}
        BY <3>1
      <4>2. j # 1
        BY <1>2, <4>1
      <4>3. j - 1 \in 1 .. (i - 1) /\ j - 1 \in 1 .. Len(t) /\ t[j - 1] = s[j]
        BY <1>2, <1>3, <4>1, <4>2
      <4> QED
        BY <4>1, <4>3 DEF Spared
    <3> QED
      BY <2>2, <3>1 DEF Spared
  <2>3. Do("siggen_stop")[1] = "siggen_stop"
    BY DEF Do, Call, OrElse
  <2> HIDE DEF k
  <2>4. i = 1 => t[i][1] # "siggen_start"
    BY <1>2, <2>1, <2>3 DEF Fits
  <2>5. Fits(t, i, g)
    BY <2>1, <2>2, <2>4 DEF Fits
  <2>6. CASE i = 1
    <3>1. /\ t[1] = s[2] /\ k = 2 /\ ArmsNow(s, 2, d) /\ Head(s) = s[1] /\ i = 1
      BY <1>2, <2>1, <2>6
    <3>2. t[1][1] = "dma0_window" => t[1][2] \in Spans \ {None} /\ ~d2.ch0
      BY <3>1 DEF ArmsNow
    <3>3. t[1][1] = "dma0_enable" => d2.win0 = t[1][2][1] /\ d2.win0 # None /\ Within(d2.win0, d2.window)
      BY <3>1 DEF ArmsNow
    <3>4. ArmsNow(t, 1, d2)
      BY <3>2, <3>3 DEF ArmsNow
    <3> QED
      BY <3>1, <3>4, <2>5
  <2>7. CASE i = 2
    <3>1. t[2] = s[3] /\ t[1] = s[2] /\ ArmsNow(s, 3, d) /\ ArmsNow(s, 1, d) /\ Head(s) = s[1] /\ i = 2
      <4>1. i = 2 /\ k = 3 /\ i - 1 = 1 /\ k - 1 = 2
        BY <2>7 DEF k
      <4> QED
        BY <1>2, <2>1, <2>7, <4>1
    <3>2. s[1][1] = "dma0_window" => d2.win0 = s[1][2] /\ s[1][2] # None
      BY <1>2, <3>1 DEF ArmsNow
    <3>3. t[2][1] = "dma0_window" => t[2][2] \in Spans \ {None} /\ t[1][1] = "dma0_stop"
      BY <3>1 DEF ArmsNow
    <3>4. t[2][1] = "dma0_enable" => t[1][1] = "window_write" /\ s[1][1] = "dma0_window" /\ s[1][2] = t[2][2][1]
      BY <3>1 DEF ArmsNow
    <3>5. ArmsNow(t, 2, d2)
      BY <3>2, <3>3, <3>4 DEF ArmsNow
    <3> QED
      BY <3>1, <3>5, <2>5
  <2>8. CASE i > 2
    <3>1. /\ t[i] = s[k] /\ ArmsNow(s, k, d)
          /\ t[i - 1] = s[k - 1] /\ t[i - 2] = s[k - 2] /\ i # 1 /\ i # 2 /\ i > 2
      BY <1>2, <2>1, <2>8
    <3>2. /\ s[k][1] = "dma0_window" => s[k][2] \in Spans \ {None} /\ s[k - 1][1] = "dma0_stop"
          /\ s[k][1] = "dma0_enable" => /\ s[k - 1][1] = "window_write" /\ s[k - 2][1] = "dma0_window"
                                        /\ s[k - 2][2] = s[k][2][1]
      <4>1. k > 1 /\ k > 2
        BY <2>1, <2>8
      <4> QED
        BY <3>1, <4>1 DEF ArmsNow
    <3>3. /\ t[i][1] = "dma0_window" => t[i][2] \in Spans \ {None} /\ t[i - 1][1] = "dma0_stop"
          /\ t[i][1] = "dma0_enable" => /\ t[i - 1][1] = "window_write" /\ t[i - 2][1] = "dma0_window"
                                        /\ t[i - 2][2] = t[i][2][1]
      BY <3>1, <3>2
    <3>4. ArmsNow(t, i, d2)
      BY <3>1, <3>3 DEF ArmsNow
    <3> QED
      BY <3>4, <2>5
  <2> QED
    BY <2>1, <2>5, <2>6, <2>7, <2>8
<1> QED
  BY <1>2, <1>3 DEF Ready, IsSequence, t

(* The window covers what the driver has noted of both users. *)
LEMMA WindowHolds ==
  ASSUME NEW v \in Spans, NEW w \in Spans
  PROVE  /\ Window(v, w) \in Spans
         /\ v # None => Within(v, Window(v, w))
         /\ w # None => Within(w, Window(v, w))
<1>1. /\ v[1] \in Nat /\ v[2] \in Nat /\ w[1] \in Nat /\ w[2] \in Nat
      /\ v = <<v[1], v[2]>> /\ w = <<w[1], w[2]>>
  BY DEF Spans
<1>2. CASE w = None
  BY <1>1, <1>2 DEF Window, Within
<1>3. CASE w # None /\ v = None
  BY <1>1, <1>3 DEF Window, Within
<1>4. CASE w # None /\ v # None
  <2> DEFINE a == IF w[1] < v[1] THEN w[1] ELSE v[1]
             b == IF w[2] > v[2] THEN w[2] ELSE v[2]
  <2>1. Window(v, w) = <<a, b>>
    BY <1>4 DEF Window
  <2>2. a \in Nat /\ b \in Nat /\ a <= v[1] /\ a <= w[1] /\ v[2] <= b /\ w[2] <= b
    BY <1>1
  <2> HIDE DEF a, b
  <2> QED
    BY <2>1, <2>2 DEF Within, Spans
<1> QED
  BY <1>2, <1>3, <1>4

(* The window is written anew. *)
LEMMA WindowWritten ==
  ASSUME Typed, Windows, dma' = [dma EXCEPT !.window = Window(dma.win0, dma.win1)]
  PROVE  /\ Windows' /\ DOMAIN dma' = DOMAIN dma
         /\ UNCHANGED <<dma.on, dma.ch0, dma.ch2, dma.win0, dma.win1, dma.range0, dma.range2, dma.to>>
         /\ dma.win0 # None => Within(dma.win0, dma'.window)
         /\ dma.win1 # None => Within(dma.win1, dma'.window)
<1>1. /\ dma'.window = Window(dma.win0, dma.win1) /\ DOMAIN dma' = DOMAIN dma
      /\ UNCHANGED <<dma.on, dma.ch0, dma.ch2, dma.win0, dma.win1, dma.range0, dma.range2, dma.to>>
  BY DEF Typed
<1>2. /\ dma'.window \in Spans
      /\ dma.win0 # None => Within(dma.win0, dma'.window)
      /\ dma.win1 # None => Within(dma.win1, dma'.window)
  BY <1>1, WindowHolds DEF Windows
<1> QED
  BY <1>1, <1>2 DEF Windows

(* The calls of channel 0. *)
LEMMA CalmDma ==
  ASSUME Typed, Windows, Calm, UNCHANGED soft,
         window_write \/ dma_off_if_idle \/ dma0_stop \/ dma0_window \/ dma0_enable
  PROVE  SessionInv'
<1>1. /\ todo # <<>> /\ todo' = Tail(todo)
      /\ UNCHANGED <<dac, clk, sccp, cap, table, gen, claim>>
  BY DEF window_write, dma_off_if_idle, dma0_stop, dma0_window, dma0_enable, Now, soft, Done, Leave
<1>2. /\ Fits(todo, 1, gen) /\ ArmsNow(todo, 1, dma) /\ Head(todo) = todo[1]
      /\ Arg = todo[1][2] /\ \A f : Now(f) <=> todo[1][1] = f
  BY <1>1, AtHead DEF Calm
<1>3. /\ Windows' /\ DOMAIN dma' = DOMAIN dma /\ Ready(todo', gen, dma')
      /\ UNCHANGED <<dma.ch2, dma.to>> /\ (dma.ch2 /\ dma.on => dma'.on)
  <2>1. CASE window_write
    <3>1. dma' = [dma EXCEPT !.window = Window(dma.win0, dma.win1)]
      BY <2>1 DEF window_write
    <3>2. Head(todo)[1] = "window_write"
      BY <2>1 DEF window_write, Now
    <3>3. Ready(Tail(todo), gen, dma')
      BY <1>1, <3>1, <3>2, WindowWritten, PoppedReady DEF Calm
    <3> QED
      BY <1>1, <3>1, <3>3, WindowWritten
  <2>2. CASE dma_off_if_idle
    <3>1. /\ DOMAIN dma' = DOMAIN dma
          /\ UNCHANGED <<dma.window, dma.ch0, dma.ch2, dma.win0, dma.win1, dma.range0, dma.range2, dma.to>>
          /\ dma'.on = (dma.ch2 /\ dma.on)
          /\ Head(todo)[1] = "dma_off_if_idle"
      BY <2>2 DEF dma_off_if_idle, Typed, Now
    <3>2. Ready(Tail(todo), gen, dma')
      BY <1>1, <3>1, PoppedReady DEF Calm
    <3> QED
      BY <1>1, <3>1, <3>2 DEF Windows
  <2>3. CASE dma0_stop
    <3>1. /\ DOMAIN dma' = DOMAIN dma /\ ~dma'.ch0
          /\ UNCHANGED <<dma.on, dma.window, dma.ch2, dma.win0, dma.win1, dma.range0, dma.range2, dma.to>>
          /\ Head(todo)[1] = "dma0_stop"
      BY <2>3 DEF dma0_stop, Typed, Now
    <3>2. Ready(Tail(todo), gen, dma')
      BY <1>1, <3>1, PoppedReady DEF Calm
    <3> QED
      BY <1>1, <3>1, <3>2 DEF Windows
  <2>4. CASE dma0_window
    <3>1. /\ DOMAIN dma' = DOMAIN dma /\ dma'.win0 = Arg
          /\ UNCHANGED <<dma.on, dma.window, dma.ch0, dma.ch2, dma.win1, dma.range0, dma.range2, dma.to>>
          /\ Head(todo)[1] = "dma0_window"
      BY <2>4 DEF dma0_window, Typed, Now
    <3>2. ~dma.ch0 /\ Arg \in Spans
      BY <1>2, <3>1 DEF ArmsNow
    <3>3. Ready(Tail(todo), gen, dma')
      BY <1>1, <1>2, <3>1, PoppedReady DEF Calm
    <3> QED
      BY <1>1, <3>1, <3>2, <3>3 DEF Windows
  <2>5. CASE dma0_enable
    <3>1. /\ DOMAIN dma' = DOMAIN dma /\ dma'.ch0 = TRUE /\ dma'.on = TRUE /\ dma'.range0 = Arg[1]
          /\ UNCHANGED <<dma.window, dma.ch2, dma.win0, dma.win1, dma.range2, dma.to>>
          /\ Head(todo)[1] = "dma0_enable"
      BY <2>5 DEF dma0_enable, Typed, Now
    <3>2. dma.win0 = Arg[1] /\ dma.win0 # None /\ Within(dma.win0, dma.window)
      BY <1>2, <3>1 DEF ArmsNow
    <3>3. Ready(Tail(todo), gen, dma')
      BY <1>1, <3>1, PoppedReady DEF Calm
    <3> QED
      BY <1>1, <3>1, <3>2, <3>3 DEF Windows
  <2> QED
    BY <2>1, <2>2, <2>3, <2>4, <2>5
<1>4. Typed'
  BY <1>1, <1>3 DEF Typed
<1>5. (Playing \/ Silent)'
  BY <1>1, <1>3 DEF Calm, Playing, Silent, Idle, Runs, Level
<1> QED
  BY <1>1, <1>3, <1>4, <1>5 DEF SessionInv, Calm
(* What a call stands for, as far as the state decides it. *)
LEMMA SettleSound ==
  ASSUME NEW g, NEW p \in BOOLEAN, NEW q \in BOOLEAN
  PROVE  Sound((IF p THEN <<Do("sccp1_stop")>> ELSE <<>>)
               \o (IF q THEN <<Do("adc_deinit"), Do("adc_reinit")>> ELSE <<>>)
               \o dma0_deinit \o <<Call("armed", FALSE)>>, g)
<1> DEFINE a == IF p THEN <<Do("sccp1_stop")>> ELSE <<>>
           b == IF q THEN <<Do("adc_deinit"), Do("adc_reinit")>> ELSE <<>>
<1>1. \A f \in {"sccp1_stop", "adc_deinit", "adc_reinit", "armed"} : Plain(f)
  BY DEF Plain, GenCalls
<1>2. Sound(a, g)
  BY <1>1, Parts
<1>3. Sound(b, g)
  <2>1. Simple(Do("adc_deinit")) /\ Simple(Do("adc_reinit"))
    BY <1>1, SimpleCalls
  <2>2. Sound(<<Do("adc_deinit"), Do("adc_reinit")>>, g)
    BY <2>1, Rows
  <2> QED
    BY <2>2, Parts
<1>4. Sound(dma0_deinit, g) /\ Sound(<<Call("armed", FALSE)>>, g)
  BY <1>1, Parts
<1> HIDE DEF a, b
<1>5. Sound(a \o b, g)
  BY <1>2, <1>3, SoundJoin
<1>6. Sound((a \o b) \o dma0_deinit, g)
  BY <1>4, <1>5, SoundJoin
<1>7. Sound(((a \o b) \o dma0_deinit) \o <<Call("armed", FALSE)>>, g)
  BY <1>4, <1>6, SoundJoin
<1> QED
  BY <1>7 DEF a, b

LEMMA CaptureSound ==
  ASSUME NEW g, NEW h \in Halves, NEW p
  PROVE  /\ Sound((IF p THEN dma0_pp_init(h) ELSE dma0_init(h)) \o <<Call("armed", TRUE)>>, g)
         /\ Sound((IF p THEN <<>> ELSE <<Do("capture_init")>>)
                  \o <<Call("run", TRUE), Call("busy", TRUE)>>, g)
         /\ Sound(<<IF p THEN Do("adc_deinit") ELSE Call("clock_adc_gate", "on")>>, g)
         /\ Sound(IF p THEN <<Do("capture_start")>> ELSE <<>>, g)
<1>1. \A f \in {"armed", "capture_init", "run", "busy", "adc_deinit", "clock_adc_gate",
                "capture_start"} : Plain(f)
  BY DEF Plain, GenCalls
<1>2. Sound((IF p THEN dma0_pp_init(h) ELSE dma0_init(h)) \o <<Call("armed", TRUE)>>, g)
  <2>1. Sound(IF p THEN dma0_pp_init(h) ELSE dma0_init(h), g)
    BY HalfSound
  <2>2. Sound(<<Call("armed", TRUE)>>, g)
    BY <1>1, Parts
  <2> QED
    BY <2>1, <2>2, SoundJoin
<1>3. Sound((IF p THEN <<>> ELSE <<Do("capture_init")>>)
            \o <<Call("run", TRUE), Call("busy", TRUE)>>, g)
  <2>1. Sound(IF p THEN <<>> ELSE <<Do("capture_init")>>, g)
    BY <1>1, Parts
  <2>2. Simple(Call("run", TRUE)) /\ Simple(Call("busy", TRUE))
    BY <1>1, SimpleCalls
  <2>3. Sound(<<Call("run", TRUE), Call("busy", TRUE)>>, g)
    BY <2>2, Rows
  <2> QED
    BY <2>1, <2>3, SoundJoin
<1>4. Sound(<<IF p THEN Do("adc_deinit") ELSE Call("clock_adc_gate", "on")>>, g)
  <2>1. Sound(<<Do("adc_deinit")>>, g) /\ Sound(<<Call("clock_adc_gate", "on")>>, g)
    BY <1>1, Parts
  <2>2. CASE p
    BY <2>1, <2>2
  <2>3. CASE ~p
    BY <2>1, <2>3
  <2> QED
    BY <2>2, <2>3
<1>5. Sound(IF p THEN <<Do("capture_start")>> ELSE <<>>, g)
  BY <1>1, Parts
<1> QED
  BY <1>2, <1>3, <1>4, <1>5

LEMMA StreamSound ==
  ASSUME NEW g, NEW signal \in BOOLEAN, signal => g # 2, NEW h \in Halves, NEW x, NEW core
  PROVE  /\ Sound(capture_chain_stop \o acq_chain_restore
                  \o <<Call("route", "none"), Call("stream", FALSE)>>, g)
         /\ Sound(acq_chain_setup(core, signal, h) \o <<Call("route_applied", x)>>
                  \o (IF signal THEN dac_triangle_start(2, ChainStart) ELSE <<>>)
                  \o ChainStart, g)
<1>1. \A f \in {"route", "stream", "route_applied"} : Plain(f)
  BY DEF Plain, GenCalls
<1>2. Sound(capture_chain_stop \o acq_chain_restore
            \o <<Call("route", "none"), Call("stream", FALSE)>>, g)
  <2>1. Simple(Call("route", "none")) /\ Simple(Call("stream", FALSE))
    BY <1>1, SimpleCalls
  <2>2. Sound(<<Call("route", "none"), Call("stream", FALSE)>>, g)
    BY <2>1, Rows
  <2>3. Sound(capture_chain_stop \o acq_chain_restore, g)
    BY Parts, RestoreSound, SoundJoin
  <2>4. Sound((capture_chain_stop \o acq_chain_restore)
              \o <<Call("route", "none"), Call("stream", FALSE)>>, g)
    BY <2>2, <2>3, SoundJoin
  <2> QED
    BY <2>4
<1>3. Sound(acq_chain_setup(core, signal, h) \o <<Call("route_applied", x)>>
            \o (IF signal THEN dac_triangle_start(2, ChainStart) ELSE <<>>)
            \o ChainStart, g)
  <2> DEFINE a == acq_chain_setup(core, signal, h)
             b == <<Call("route_applied", x)>>
             c == IF signal THEN dac_triangle_start(2, ChainStart) ELSE <<>>
  <2>1. Sound(a, g) /\ Sound(b, g)
    BY <1>1, Parts, SetupSound
  <2>2. Sound(c, g)
    <3>1. CASE signal
      BY <3>1, DacStartSound, FallsBack DEF dac_triangle_start, Units
    <3>2. CASE ~signal
      BY <3>2, Parts
    <3> QED
      BY <3>1, <3>2
  <2> HIDE DEF a, b, c
  <2>3. Sound(a \o b, g)
    BY <2>1, SoundJoin
  <2>4. Sound((a \o b) \o c, g)
    BY <2>2, <2>3, SoundJoin
  <2>5. Sound(((a \o b) \o c) \o ChainStart, g)
    BY <2>4, StartSound, SoundJoin
  <2> QED
    BY <2>5 DEF a, b, c
<1> QED
  BY <1>2, <1>3
(* The calls of capture.c. *)
LEMMA CalmCapture ==
  ASSUME Typed, Windows, Calm,
         \/ \E f \in {"armed", "chain", "run", "busy", "powered", "half"} : Cap(f)
         \/ capture_settle \/ capture_init \/ core_down \/ capture_start \/ restart
  PROVE  SessionInv'
<1>1. CASE \E f \in {"armed", "chain", "run", "busy", "powered", "half"} : Cap(f)
  <2>1. PICK f \in {"armed", "chain", "run", "busy", "powered", "half"} : Cap(f)
    BY <1>1
  <2>2. /\ Now(f) /\ Done /\ cap' = [cap EXCEPT ![f] = Arg]
        /\ UNCHANGED <<dac, clk, dma, sccp, table, soft>>
    BY <2>1 DEF Cap
  <2>3. Clean(todo', gen)
    BY <2>2, GoesOn DEF Calm
  <2>4. f = "half" => Arg \in Halves
    <3>1. Fits(todo, 1, gen) /\ Arg = todo[1][2] /\ todo[1][1] = f
      BY <2>2, AtHead DEF Calm, Now
    <3> QED
      BY <3>1 DEF Fits
  <2>5. cap'.half \in Halves /\ "half" \in DOMAIN cap'
    BY <2>2, <2>4 DEF Typed
  <2> QED
    BY <2>2, <2>3, <2>5, CalmStill DEF Still, Calm, Typed, soft
<1>2. CASE capture_settle
  <2>1. PICK hangs \in {cap.busy, FALSE} :
          Instead((IF cap.chain THEN <<Do("sccp1_stop")>> ELSE <<>>)
                  \o (IF hangs /\ cap.powered THEN <<Do("adc_deinit"), Do("adc_reinit")>> ELSE <<>>)
                  \o dma0_deinit \o <<Call("armed", FALSE)>>)
    BY <1>2 DEF capture_settle
  <2> DEFINE p == IF cap.chain THEN TRUE ELSE FALSE
             q == IF hangs /\ cap.powered THEN TRUE ELSE FALSE
  <2>2. Instead((IF p THEN <<Do("sccp1_stop")>> ELSE <<>>)
                \o (IF q THEN <<Do("adc_deinit"), Do("adc_reinit")>> ELSE <<>>)
                \o dma0_deinit \o <<Call("armed", FALSE)>>)
    BY <2>1
  <2>3. p \in BOOLEAN /\ q \in BOOLEAN
    OBVIOUS
  <2> HIDE DEF p, q
  <2>4. Now("settle")
    BY <1>2 DEF capture_settle
  <2>5. Clean(todo', gen)
    BY <2>2, <2>3, <2>4, SettleSound, GoesOn DEF Calm
  <2>6. cap'.half \in Halves /\ "half" \in DOMAIN cap'
    BY <1>2 DEF capture_settle, Typed
  <2>7. UNCHANGED <<dac, clk, dma, sccp, table, soft>>
    BY <1>2 DEF capture_settle
  <2> QED
    BY <2>5, <2>6, <2>7, CalmStill DEF Still, Calm, Typed, soft
<1>3. CASE capture_init \/ core_down \/ capture_start \/ restart
  <2>1. UNCHANGED <<board, table, soft>>
    BY <1>3 DEF capture_init, core_down, capture_start, restart
  <2>2. Clean(todo', gen)
    <3>1. CASE capture_init
      BY <3>1, CaptureSound, GoesOn DEF capture_init, Calm, Typed
    <3>2. CASE core_down
      BY <3>2, CaptureSound, GoesOn DEF core_down, Calm, Typed
    <3>3. CASE capture_start
      BY <3>3, CaptureSound, GoesOn DEF capture_start, Calm, Typed
    <3>4. CASE restart
      BY <3>4, CaptureSound, GoesOn DEF restart, Calm, Typed
    <3> QED
      BY <1>3, <3>1, <3>2, <3>3, <3>4
  <2> QED
    BY <2>1, <2>2, CalmStill DEF Still, Calm, Typed, soft, board
<1> QED
  BY <1>1, <1>2, <1>3

(* The calls of acquisition.c and of the console. *)
LEMMA CalmAcquisition ==
  ASSUME Typed, Windows, Calm,
         \/ restore_dac2 \/ set_ok \/ set_route \/ set_stream \/ set_gen \/ set_claim
         \/ ask \/ unask \/ route_applied \/ chain_stream_off \/ stream_on_route
  PROVE  SessionInv'
<1>1. ~set_gen /\ ~set_claim
  <2> SUFFICES ASSUME NEW f \in {"gen", "claim"}, Now(f) PROVE FALSE
    BY DEF set_gen, set_claim, Soft
  <2>1. Fits(todo, 1, gen) /\ todo[1][1] = f
    BY AtHead DEF Calm, Now
  <2> QED
    BY <2>1 DEF Fits, GenCalls
<1>2. UNCHANGED <<board, table, gen, claim>>
  BY <1>1 DEF restore_dac2, set_ok, set_route, set_stream, ask, unask, route_applied,
              chain_stream_off, stream_on_route, Soft, soft
<1>3. gen = claim
  BY DEF Calm, Playing, Silent, Idle
<1>4. Clean(todo', gen)
  <2>1. CASE restore_dac2
    <3>1. Sound(IF gen # 2 THEN dac_off(2) ELSE <<>>, gen)
      BY DacOffSound, Parts DEF Units
    <3> QED
      BY <2>1, <3>1, GoesOn DEF restore_dac2, Calm
  <2>2. CASE set_ok \/ set_route \/ set_stream \/ ask \/ unask
    <3>1. \E f \in {"ok", "route", "stream", "ask", "unask"} : Now(f) /\ Done
      BY <2>2 DEF set_ok, set_route, set_stream, ask, unask, Soft
    <3> QED
      BY <3>1, GoesOn DEF Calm
  <2>3. CASE route_applied
    <3>1. Now("route_applied") /\ (Done \/ Leave(acq_chain_restore))
      BY <2>3 DEF route_applied
    <3> QED
      BY <3>1, RestoreSound, GoesOn DEF Calm
  <2>4. CASE chain_stream_off
    <3>1. Sound(IF stream THEN capture_chain_stop \o acq_chain_restore
                               \o <<Call("route", "none"), Call("stream", FALSE)>>
                          ELSE <<>>, gen)
      BY StreamSound, Parts DEF Typed
    <3> QED
      BY <2>4, <3>1, GoesOn DEF chain_stream_off, Calm
  <2>5. CASE stream_on_route
    <3> DEFINE signal == Arg = "signal"
               core == IF signal THEN "chain" ELSE "input"
    <3>1. CASE signal /\ claim = 2
      <4>1. Now("stream_on_route") /\ Leave(<<>>)
        BY <2>5, <3>1 DEF stream_on_route
      <4> QED
        BY <4>1, Parts, GoesOn DEF Calm
    <3>2. CASE ~(signal /\ claim = 2)
      <4>1. /\ Now("stream_on_route")
            /\ Instead(acq_chain_setup(core, signal, cap.half) \o <<Call("route_applied", Arg)>>
                       \o (IF signal THEN dac_triangle_start(2, ChainStart) ELSE <<>>)
                       \o ChainStart)
        BY <2>5, <3>2 DEF stream_on_route, ChainStart, Undone
      <4>2. /\ signal \in BOOLEAN /\ (signal => gen # 2) /\ cap.half \in Halves
        BY <3>2, <1>3 DEF Typed
      <4> HIDE DEF signal, core
      <4>3. Sound(acq_chain_setup(core, signal, cap.half) \o <<Call("route_applied", Arg)>>
                  \o (IF signal THEN dac_triangle_start(2, ChainStart) ELSE <<>>)
                  \o ChainStart, gen)
        BY <4>2, StreamSound
      <4> QED
        BY <4>1, <4>3, GoesOn DEF Calm
    <3> QED
      BY <3>1, <3>2
  <2> QED
    BY <1>1, <2>1, <2>2, <2>3, <2>4, <2>5
<1> QED
  BY <1>2, <1>4, CalmStill DEF Still, Calm, Typed, board
----------------------------------------------------------------------------
(* Programs call by call. *)
LEMMA Together ==
  ASSUME NEW s, NEW t, NEW u, IsSequence(s), IsSequence(t), IsSequence(u)
  PROVE  \E S : s \in Seq(S) /\ t \in Seq(S) /\ u \in Seq(S)
<1>1. PICK A : s \in Seq(A)
  BY DEF IsSequence
<1>2. PICK B : t \in Seq(B)
  BY DEF IsSequence
<1>3. PICK C : u \in Seq(C)
  BY DEF IsSequence
<1> DEFINE S == A \cup B \cup C
<1>4. ASSUME NEW D, D \subseteq S, NEW q \in Seq(D) PROVE q \in Seq(S)
  <2>1. Len(q) \in Nat /\ q \in [1 .. Len(q) -> D]
    OBVIOUS
  <2>2. q \in [1 .. Len(q) -> S]
    BY <1>4, <2>1
  <2> QED
    BY <2>1, <2>2, SeqDef
<1>5. A \subseteq S /\ B \subseteq S /\ C \subseteq S
  OBVIOUS
<1> HIDE DEF S
<1> QED
  BY <1>1, <1>2, <1>3, <1>4, <1>5

LEMMA Assoc ==
  ASSUME NEW s, NEW t, NEW u, IsSequence(s), IsSequence(t), IsSequence(u)
  PROVE  (s \o t) \o u = s \o (t \o u) /\ s \o <<>> = s /\ <<>> \o s = s
<1>1. PICK S : s \in Seq(S) /\ t \in Seq(S) /\ u \in Seq(S)
  BY Together
<1>2. (s \o t) \o u = s \o (t \o u)
  BY <1>1, ConcatAssociative
<1>3. s \o <<>> = s /\ <<>> \o s = s
  BY <1>1, ConcatEmptySeq
<1> QED
  BY <1>2, <1>3

LEMMA Pushed ==
  ASSUME NEW c, NEW t, IsSequence(t)
  PROVE  /\ IsSequence(Push(c, t)) /\ Push(c, t) # <<>>
         /\ Head(Push(c, t)) = c /\ Tail(Push(c, t)) = t
<1>1. IsSequence(<<c>>)
  <2>1. <<c>> \in Seq({c})
    OBVIOUS
  <2> QED
    BY <2>1 DEF IsSequence
<1>2. PICK S : <<c>> \in Seq(S) /\ t \in Seq(S)
  BY <1>1, Together
<1>3. c \in S
  BY <1>2
<1> DEFINE e == <<c>>
           p == Push(c, t)
<1>4. p \in Seq(S) /\ Len(p) = Len(t) + 1 /\ p[1] = c /\ \A i \in 1 .. Len(t) : p[i + 1] = t[i]
  <2>1. e \in Seq(S) /\ Len(e) = 1 /\ e[1] = c /\ p = e \o t
    BY <1>2 DEF Push
  <2> HIDE DEF e, p
  <2>2. /\ e \o t \in Seq(S) /\ Len(e \o t) = 1 + Len(t) /\ (e \o t)[1] = e[1] /\ Len(t) \in Nat
        /\ \A i \in 1 .. Len(t) : (e \o t)[1 + i] = t[i]
    <3>1. 1 \in 1 .. Len(e)
      BY <2>1
    <3>2. IsSequence(e) /\ IsSequence(t)
      BY <1>2, <2>1 DEF IsSequence
    <3>3. e \o t \in Seq(S)
      BY <1>2, <2>1
    <3>4. /\ Len(e \o t) = Len(e) + Len(t) /\ Len(t) \in Nat
          /\ \A i \in 1 .. Len(e) : (e \o t)[i] = e[i]
          /\ \A i \in 1 .. Len(t) : (e \o t)[Len(e) + i] = t[i]
      BY <3>2, Joining
    <3> QED
      BY <2>1, <3>1, <3>3, <3>4
  <2> QED
    BY <2>1, <2>2
<1> HIDE DEF e
<1> HIDE DEF p
<1>5. p # <<>> /\ Head(p) = c /\ Tail(p) \in Seq(S) /\ Len(Tail(p)) = Len(t)
      /\ \A i \in 1 .. Len(t) : Tail(p)[i] = p[i + 1]
  BY <1>2, <1>4
<1> DEFINE q == Tail(p)
<1>6. q \in Seq(S) /\ Len(q) = Len(t) /\ \A i \in 1 .. Len(q) : q[i] = t[i]
  BY <1>4, <1>5
<1> HIDE DEF q
<1>7. q = t
  BY <1>2, <1>6, SeqEqual
<1> QED
  BY <1>4, <1>5, <1>7 DEF IsSequence, p, q

LEMMA Grown ==
  ASSUME NEW S, NEW m \in Seq(S), NEW s \in Seq(S), NEW x \in S, Len(m) = Len(s) + 1,
         m[Len(s) + 1] = x, \A i \in 1 .. Len(s) : m[i] = s[i]
  PROVE  m = s \o <<x>> /\ IsSequence(s) /\ IsSequence(<<x>>)
<1> DEFINE e == <<x>>
           n == s \o e
<1>1. e \in Seq(S) /\ Len(e) = 1 /\ e[1] = x /\ Len(s) \in Nat
  OBVIOUS
<1> HIDE DEF e
<1>2. n \in Seq(S) /\ Len(n) = Len(s) + 1 /\ n[Len(s) + 1] = x /\ \A i \in 1 .. Len(s) : n[i] = s[i]
  <2>1. n \in Seq(S)
    BY <1>1
  <2>2. IsSequence(s) /\ IsSequence(e) /\ 1 \in 1 .. Len(e)
    BY <1>1 DEF IsSequence
  <2>3. /\ Len(s \o e) = Len(s) + Len(e)
        /\ \A i \in 1 .. Len(s) : (s \o e)[i] = s[i]
        /\ \A i \in 1 .. Len(e) : (s \o e)[Len(s) + i] = e[i]
    BY <2>2, Joining
  <2> QED
    BY <1>1, <2>1, <2>2, <2>3
<1>3. \A i \in 1 .. Len(m) : i \in 1 .. Len(s) \/ i = Len(s) + 1
  BY <1>1
<1> HIDE DEF n
<1>4. m = n
  BY <1>1, <1>2, <1>3, SeqEqual
<1> QED
  BY <1>1, <1>4 DEF n, e, IsSequence

LEMMA Chain2 ==
  ASSUME NEW a, NEW b, NEW t, IsSequence(t)
  PROVE  <<a, b>> \o t = Push(a, Push(b, t))
<1> DEFINE S == {a, b}
           m == <<a, b>>
           s == <<a>>
           e == <<b>>
<1>1. /\ m \in Seq(S) /\ s \in Seq(S) /\ Len(m) = 2 /\ Len(s) = 1 /\ m[2] = b
      /\ m[1] = s[1] /\ b \in S
  OBVIOUS
<1> HIDE DEF m, s, S
<1>2. Len(m) = Len(s) + 1 /\ m[Len(s) + 1] = b /\ \A i \in 1 .. Len(s) : m[i] = s[i]
  BY <1>1
<1>3. m = s \o e /\ IsSequence(s) /\ IsSequence(e)
  <2>1. m \in Seq(S) /\ s \in Seq(S) /\ b \in S
    BY <1>1
  <2>2. m = s \o <<b>> /\ IsSequence(s) /\ IsSequence(<<b>>)
    BY <1>2, <2>1, Grown
  <2> QED
    BY <2>2
<1>4. IsSequence(Push(b, t)) /\ e \o t = Push(b, t)
  BY Pushed DEF Push
<1> HIDE DEF e
<1>5. (s \o e) \o t = s \o (e \o t)
  BY <1>3, Assoc
<1>6. s \o Push(b, t) = Push(a, Push(b, t))
  BY <1>4 DEF s, Push
<1> QED
  BY <1>3, <1>4, <1>5, <1>6 DEF m

LEMMA Chain3 ==
  ASSUME NEW a, NEW b, NEW c, NEW t, IsSequence(t)
  PROVE  <<a, b, c>> \o t = Push(a, Push(b, Push(c, t)))
<1> DEFINE S == {a, b, c}
           m == <<a, b, c>>
           s == <<a, b>>
           e == <<c>>
<1>1. /\ m \in Seq(S) /\ s \in Seq(S) /\ Len(m) = 3 /\ Len(s) = 2 /\ m[3] = c
      /\ m[1] = s[1] /\ m[2] = s[2] /\ c \in S
  OBVIOUS
<1> HIDE DEF m, s, S
<1>2. Len(m) = Len(s) + 1 /\ m[Len(s) + 1] = c /\ \A i \in 1 .. Len(s) : m[i] = s[i]
  BY <1>1
<1>3. m = s \o e /\ IsSequence(s) /\ IsSequence(e)
  <2>1. m \in Seq(S) /\ s \in Seq(S) /\ c \in S
    BY <1>1
  <2>2. m = s \o <<c>> /\ IsSequence(s) /\ IsSequence(<<c>>)
    BY <1>2, <2>1, Grown
  <2> QED
    BY <2>2
<1>4. IsSequence(Push(c, t)) /\ e \o t = Push(c, t)
  BY Pushed DEF Push
<1> HIDE DEF e
<1>5. (s \o e) \o t = s \o (e \o t)
  BY <1>3, Assoc
<1>6. s \o Push(c, t) = Push(a, Push(b, Push(c, t)))
  BY <1>4, Chain2 DEF s
<1> QED
  BY <1>3, <1>4, <1>5, <1>6 DEF m

LEMMA Chain4 ==
  ASSUME NEW a, NEW b, NEW c, NEW d, NEW t, IsSequence(t)
  PROVE  <<a, b, c, d>> \o t = Push(a, Push(b, Push(c, Push(d, t))))
<1> DEFINE S == {a, b, c, d}
           m == <<a, b, c, d>>
           s == <<a, b, c>>
           e == <<d>>
<1>1. /\ m \in Seq(S) /\ s \in Seq(S) /\ Len(m) = 4 /\ Len(s) = 3 /\ m[4] = d
      /\ m[1] = s[1] /\ m[2] = s[2] /\ m[3] = s[3] /\ d \in S
  OBVIOUS
<1> HIDE DEF m, s, S
<1>2. Len(m) = Len(s) + 1 /\ m[Len(s) + 1] = d /\ \A i \in 1 .. Len(s) : m[i] = s[i]
  BY <1>1
<1>3. m = s \o e /\ IsSequence(s) /\ IsSequence(e)
  <2>1. m \in Seq(S) /\ s \in Seq(S) /\ d \in S
    BY <1>1
  <2>2. m = s \o <<d>> /\ IsSequence(s) /\ IsSequence(<<d>>)
    BY <1>2, <2>1, Grown
  <2> QED
    BY <2>2
<1>4. IsSequence(Push(d, t)) /\ e \o t = Push(d, t)
  BY Pushed DEF Push
<1> HIDE DEF e
<1>5. (s \o e) \o t = s \o (e \o t)
  BY <1>3, Assoc
<1>6. s \o Push(d, t) = Push(a, Push(b, Push(c, Push(d, t))))
  BY <1>4, Chain3 DEF s
<1> QED
  BY <1>3, <1>4, <1>5, <1>6 DEF m
----------------------------------------------------------------------------
(* What follows a stop of the generator is a program for a board on which  *)
(* the generator does not play, or the stop was another DAC's.             *)
LEMMA PoppedStop ==
  ASSUME NEW s, NEW g, NEW d, Ready(s, g, d), s # <<>>, Head(s)[1] = "siggen_stop",
         NEW h, h = 0 \/ (h = g /\ Head(s)[2] \notin {0, g})
  PROVE  Clean(Tail(s), h)
<1> DEFINE t == Tail(s)
<1>1. PICK S : s \in Seq(S)
  BY DEF Ready, IsSequence
<1>2. /\ t \in Seq(S) /\ Len(s) \in Nat /\ Len(s) > 0 /\ Len(t) = Len(s) - 1
      /\ \A i \in 1 .. Len(t) : i + 1 \in 1 .. Len(s) /\ t[i] = s[i + 1]
      /\ Head(s) = s[1]
  BY <1>1
<1> HIDE DEF t
<1>3. ASSUME NEW i \in 1 .. Len(t) PROVE Fits(t, i, h) /\ Arms(t, i)
  <2> DEFINE k == i + 1
  <2>1. /\ k \in 1 .. Len(s) /\ Fits(s, k, g) /\ ArmsNow(s, k, d) /\ t[i] = s[k]
        /\ s[1][1] = "siggen_stop"
        /\ k > 1 /\ (i = 1 => k = 2 /\ s[k - 1] = s[1])
        /\ i = 2 => k > 2 /\ s[k - 2] = s[1]
        /\ i > 1 => t[i - 1] = s[k - 1] /\ k > 2
        /\ i > 2 => t[i - 2] = s[k - 2]
        /\ k < Len(s) => i < Len(t) /\ t[i + 1] = s[k + 1]
        /\ k = Len(s) => i = Len(t)
    <3>1. /\ k \in 1 .. Len(s) /\ k > 1 /\ (i = 1 => k = 2 /\ k - 1 = 1)
          /\ i = 2 => k > 2 /\ k - 2 = 1
          /\ i > 1 => i - 1 \in 1 .. Len(t) /\ (i - 1) + 1 = k - 1 /\ k > 2
          /\ i > 2 => i - 2 \in 1 .. Len(t) /\ (i - 2) + 1 = k - 2
          /\ k < Len(s) => i < Len(t) /\ i + 1 \in 1 .. Len(t) /\ (i + 1) + 1 = k + 1
          /\ k = Len(s) => i = Len(t)
      BY <1>2, <1>3
    <3>2. Fits(s, k, g) /\ ArmsNow(s, k, d) /\ t[i] = s[k]
      BY <1>2, <1>3, <3>1 DEF Ready
    <3>3. s[1][1] = "siggen_stop"
      BY <1>2
    <3>4. /\ i > 1 => t[i - 1] = s[k - 1]
          /\ i > 2 => t[i - 2] = s[k - 2]
          /\ k < Len(s) => t[i + 1] = s[k + 1]
      BY <1>2, <3>1
    <3> HIDE DEF k
    <3> QED
      BY <3>1, <3>2, <3>3, <3>4
  <2>2. ASSUME NEW v \in Units, Spared(s, k, g, v) PROVE Spared(t, i, h, v)
    <3>1. CASE h = 0
      BY <3>1 DEF Spared, Units
    <3>2. CASE h = g /\ s[1][2] \notin {0, g} /\ g = v
      <4>1. PICK j \in 1 .. (k - 1) : s[j][1] = "siggen_stop" /\ s[j][2] \in {0, v}
        BY <2>2, <3>2 DEF Spared
      <4>2. j # 1
        BY <3>2, <4>1
      <4>3. j - 1 \in 1 .. (i - 1) /\ j - 1 \in 1 .. Len(t) /\ t[j - 1] = s[j]
        BY <1>2, <1>3, <4>1, <4>2
      <4> QED
        BY <4>1, <4>3 DEF Spared
    <3>3. CASE h = g /\ g # v
      BY <3>3 DEF Spared
    <3> QED
      BY <1>2, <3>1, <3>2, <3>3
  <2>3. Do("siggen_stop")[1] = "siggen_stop" /\ Do("siggen_stop")[2] = 0
    BY DEF Do, Call, OrElse
  <2> HIDE DEF k
  <2>4. i = 1 /\ t[i][1] = "siggen_start" => h = 0
    BY <1>2, <2>1, <2>3 DEF Fits
  <2>5. Fits(t, i, h)
    BY <2>1, <2>2, <2>4 DEF Fits
  <2>6. Arms(t, i)
    BY <2>1 DEF ArmsNow, Arms
  <2> QED
    BY <2>5, <2>6
<1> QED
  BY <1>2, <1>3 DEF Clean, IsSequence, t

(* The programs of the generator, call by call. *)
LEMMA StopCalls ==
  ASSUME NEW u, NEW t, IsSequence(t)
  PROVE  /\ <<Do("sccp2_stop")>> \o dma_tx_stop \o dac_off(u)
              \o <<Call("claim", 0), Call("gen", 0)>> \o t = Off0(Dark0(u, Gone0(t)))
         /\ IsSequence(Dark0(u, Gone0(t))) /\ IsSequence(Dark1(Gone0(t)))
         /\ IsSequence(Gone0(t)) /\ IsSequence(Gone1(t))
         /\ Undo(u) = Off0(Dark0(u, <<>>)) /\ dac_off(u) = Dark0(u, <<>>)
         /\ IsSequence(Undo(u)) /\ IsSequence(dac_off(u)) /\ IsSequence(<<>>)
<1> DEFINE a == <<Do("sccp2_stop")>>
           b == dma_tx_stop
           c == dac_off(u)
           d == <<Call("claim", 0), Call("gen", 0)>>
<1>1. /\ IsSequence(Gone1(t)) /\ IsSequence(Gone0(t)) /\ IsSequence(Dark1(Gone0(t)))
      /\ IsSequence(Dark0(u, Gone0(t)))
  BY Pushed DEF Gone1, Gone0, Dark1, Dark0
<1>2. IsSequence(a) /\ IsSequence(b) /\ IsSequence(c) /\ IsSequence(d) /\ IsSequence(<<>>)
  <2>1. /\ a \in Seq({Do("sccp2_stop")})
        /\ b \in Seq({Do("dma2_stop"), Call("dma2_window", None), Do("dma2_window_back")})
        /\ c \in Seq({Call("dac_unit_off", u), Do("dac_light_off")})
        /\ d \in Seq({Call("claim", 0), Call("gen", 0)}) /\ <<>> \in Seq({})
    BY DEF dma_tx_stop, dac_off
  <2> QED
    BY <2>1 DEF IsSequence
<1>3. d \o t = Gone0(t)
  BY Chain2 DEF Gone0, Gone1
<1>4. \A r : IsSequence(r) => c \o r = Dark0(u, r) /\ IsSequence(c \o r)
  <2> SUFFICES ASSUME NEW r, IsSequence(r) PROVE c \o r = Dark0(u, r) /\ IsSequence(c \o r)
    OBVIOUS
  <2>1. c \o r = Push(Call("dac_unit_off", u), Push(Do("dac_light_off"), r))
    BY Chain2 DEF dac_off
  <2> HIDE DEF c
  <2> QED
    BY <1>2, <2>1, Joining DEF Dark0, Dark1
<1>5. \A r : IsSequence(r) => b \o r = Off1(r) /\ IsSequence(b \o r)
  <2> SUFFICES ASSUME NEW r, IsSequence(r) PROVE b \o r = Off1(r) /\ IsSequence(b \o r)
    OBVIOUS
  <2>1. b \o r = Push(Do("dma2_stop"), Push(Call("dma2_window", None), Push(Do("dma2_window_back"), r)))
    BY Chain3 DEF dma_tx_stop
  <2> HIDE DEF b
  <2> QED
    BY <1>2, <2>1, Joining DEF Off1, Off2, Off3
<1>6. \A r : Push(Do("sccp2_stop"), r) = a \o r
  BY DEF Push
<1> HIDE DEF a, b, c, d
<1>7. IsSequence(a \o b) /\ IsSequence((a \o b) \o c)
  <2>1. IsSequence(a \o b)
    BY <1>2, Joining
  <2> QED
    BY <1>2, <2>1, Joining
<1>8. (((a \o b) \o c) \o d) \o t = Off0(Dark0(u, Gone0(t)))
  <2> DEFINE x == (a \o b) \o c
             y == a \o b
             e == Dark0(u, Gone0(t))
  <2>1. (x \o d) \o t = x \o (d \o t)
    <3>1. IsSequence(x) /\ IsSequence(d)
      BY <1>2, <1>7
    <3> HIDE DEF x
    <3> QED
      BY <3>1, Assoc
  <2>2. (y \o c) \o Gone0(t) = y \o (c \o Gone0(t))
    <3> DEFINE r == Gone0(t)
    <3>1. IsSequence(y) /\ IsSequence(c) /\ IsSequence(r)
      BY <1>1, <1>2, <1>7
    <3> HIDE DEF y, r
    <3>2. (y \o c) \o r = y \o (c \o r)
      BY <3>1, Assoc
    <3> QED
      BY <3>2 DEF r
  <2>3. (a \o b) \o e = a \o (b \o e)
    <3>1. IsSequence(e)
      BY <1>1
    <3> HIDE DEF e
    <3> QED
      BY <1>2, <3>1, Assoc, SMTT(30)
  <2>4. c \o Gone0(t) = e /\ b \o e = Off1(e)
    BY <1>1, <1>4, <1>5
  <2>5. a \o Off1(e) = Off0(e)
    BY <1>6 DEF Off0
  <2>6. (x \o d) \o t = x \o Gone0(t)
    BY <1>3, <2>1
  <2>7. x \o Gone0(t) = y \o e
    BY <2>2, <2>4
  <2>8. y \o e = Off0(e)
    BY <2>3, <2>4, <2>5
  <2> QED
    BY <2>6, <2>7, <2>8
<1>9. c = Dark0(u, <<>>)
  BY <1>2, <1>4, Assoc
<1>10. (a \o b) \o c = Off0(Dark0(u, <<>>))
  <2>1. (a \o b) \o c = a \o (b \o c)
    <3>1. IsSequence(a) /\ IsSequence(b) /\ IsSequence(c)
      BY <1>2
    <3> QED
      BY <3>1, Assoc
  <2>2. b \o c = Off1(c)
    BY <1>2, <1>5
  <2> QED
    BY <1>6, <1>9, <2>1, <2>2 DEF Off0
<1> QED
  BY <1>1, <1>2, <1>7, <1>8, <1>9, <1>10 DEF a, b, c, d, Undo

LEMMA StartCalls ==
  ASSUME NEW u, NEW n
  PROVE  dac_level_start(u, <<>>) \o <<Call("unask", u)>> \o dma_tx_start(u, n, dac_off(u))
           \o <<Try("sccp2_start", 0, Undo(u)), Call("claim", u), Call("gen", u)>>
           \o <<>> = On0(u, TableRange(n))
<1> DEFINE r == TableRange(n)
           a == dac_level_start(u, <<>>)
           b == <<Call("unask", u)>>
           c == dma_tx_start(u, n, dac_off(u))
           d == <<Try("sccp2_start", 0, Undo(u)), Call("claim", u), Call("gen", u)>>
<1>1. /\ a = <<OrElse("clock_dac_on", 0, Everything, <<>>), Call("dac_enable", <<u, "level">>)>>
      /\ c = <<Do("dma2_stop"), Call("dma2_window", r), Do("window_write"),
               Try("dma2_enable", <<r, u>>, dac_off(u))>>
  BY DEF dac_level_start, dac_start, dma_tx_start
<1>2. IsSequence(<<>>)
  <2>1. <<>> \in Seq({})
    OBVIOUS
  <2> QED
    BY <2>1 DEF IsSequence
<1>3. \A f, g, h, k : /\ IsSequence(<<f>>) /\ IsSequence(<<f, g>>)
                      /\ IsSequence(<<f, g, h>>) /\ IsSequence(<<f, g, h, k>>)
  <2>1. \A f, g, h, k : /\ <<f>> \in Seq({f, g, h, k}) /\ <<f, g>> \in Seq({f, g, h, k})
                        /\ <<f, g, h>> \in Seq({f, g, h, k})
                        /\ <<f, g, h, k>> \in Seq({f, g, h, k})
    OBVIOUS
  <2> QED
    BY <2>1 DEF IsSequence
<1>4. IsSequence(a) /\ IsSequence(b) /\ IsSequence(c) /\ IsSequence(d)
  BY <1>1, <1>3, Zenon
<1>5. /\ IsSequence(On9(u)) /\ IsSequence(On8(u)) /\ IsSequence(On7(u)) /\ IsSequence(On6(u, r))
      /\ IsSequence(On5(u, r)) /\ IsSequence(On4(u, r)) /\ IsSequence(On3(u, r))
      /\ IsSequence(On2(u, r))
  BY <1>2, Pushed DEF On9, On8, On7, On6, On5, On4, On3, On2
<1>6. d \o <<>> = On7(u)
  <2> DEFINE p == Try("sccp2_start", 0, Undo(u))
             q == Call("claim", u)
             w == Call("gen", u)
             s == <<>>
  <2>1. d = <<p, q, w>> /\ On7(u) = Push(p, Push(q, Push(w, s))) /\ IsSequence(s)
    BY <1>2 DEF On7, On8, On9
  <2> HIDE DEF p, q, w, d, s
  <2>2. <<p, q, w>> \o s = Push(p, Push(q, Push(w, s)))
    BY <2>1, Chain3
  <2> QED
    BY <2>1, <2>2 DEF s
<1>7. c \o On7(u) = On3(u, r)
  <2> DEFINE p == Do("dma2_stop")
             q == Call("dma2_window", r)
             w == Do("window_write")
             k == Try("dma2_enable", <<r, u>>, dac_off(u))
             s == On7(u)
  <2>1. c = <<p, q, w, k>> /\ On3(u, r) = Push(p, Push(q, Push(w, Push(k, s)))) /\ IsSequence(s)
    BY <1>1, <1>5 DEF On6, On5, On4, On3
  <2> HIDE DEF p, q, w, k, s, c
  <2>2. <<p, q, w, k>> \o s = Push(p, Push(q, Push(w, Push(k, s))))
    BY <2>1, Chain4
  <2> QED
    BY <2>1, <2>2 DEF s
<1>8. b \o On3(u, r) = On2(u, r)
  BY DEF On2, Push
<1>9. a \o On2(u, r) = On0(u, r)
  <2> DEFINE p == OrElse("clock_dac_on", 0, Everything, <<>>)
             q == Call("dac_enable", <<u, "level">>)
             s == On2(u, r)
  <2>1. a = <<p, q>> /\ On0(u, r) = Push(p, Push(q, s)) /\ IsSequence(s)
    BY <1>1, <1>5 DEF On1, On0
  <2> HIDE DEF p, q, s, a
  <2>2. <<p, q>> \o s = Push(p, Push(q, s))
    BY <2>1, Chain2
  <2> QED
    BY <2>1, <2>2 DEF s
<1> HIDE DEF a, b, c, d, r
<1> DEFINE x == a \o b
           y == x \o c
           z == On7(u)
           v == On3(u, r)
<1>10. IsSequence(x) /\ IsSequence(y)
  <2>1. IsSequence(x)
    BY <1>4, Joining
  <2> HIDE DEF x
  <2>2. IsSequence(x \o c)
    BY <1>4, <2>1, Joining
  <2> QED
    BY <2>1, <2>2
<1>11. (y \o d) \o <<>> = y \o (d \o <<>>)
  <2>1. IsSequence(y) /\ IsSequence(d)
    BY <1>4, <1>10
  <2> HIDE DEF y
  <2> QED
    BY <1>2, <2>1, Assoc
<1>12. (x \o c) \o z = x \o (c \o z)
  <2>1. IsSequence(x) /\ IsSequence(c) /\ IsSequence(z)
    BY <1>4, <1>5, <1>10
  <2> HIDE DEF x, z
  <2> QED
    BY <2>1, Assoc
<1>13. (a \o b) \o v = a \o (b \o v)
  <2>1. IsSequence(a) /\ IsSequence(b) /\ IsSequence(v)
    BY <1>4, <1>5
  <2> HIDE DEF v
  <2> QED
    BY <2>1, Assoc, SMTT(30)
<1>14. (y \o d) \o <<>> = y \o z
  BY <1>6, <1>11
<1>15. y \o z = x \o v
  BY <1>7, <1>12
<1>16. x \o v = On0(u, r)
  BY <1>8, <1>9, <1>13
<1> QED
  BY <1>14, <1>15, <1>16 DEF a, b, c, d, r

(* The generator is stopped by a command that runs. *)
LEMMA CalmStop ==
  ASSUME Typed, Windows, Calm, siggen_stop PROVE SessionInv'
<1>1. /\ Now("siggen_stop") /\ todo # <<>> /\ Head(todo)[1] = "siggen_stop" /\ Arg = Head(todo)[2]
      /\ UNCHANGED <<board, table, soft>>
  BY DEF siggen_stop, Now, Arg
<1>2. IsSequence(Tail(todo))
  <2>1. PICK S : todo \in Seq(S)
    BY DEF Calm, Ready, IsSequence
  <2>2. Tail(todo) \in Seq(S)
    BY <1>1, <2>1
  <2> QED
    BY <2>2 DEF IsSequence
<1>3. CASE gen # 0 /\ Arg \in {0, gen}
  <2> PICK r : r = Tail(todo)
    OBVIOUS
  <2> PICK t : t = Dark0(gen, Gone0(r))
    OBVIOUS
  <2>1. todo' = <<Do("sccp2_stop")>> \o dma_tx_stop \o dac_off(gen)
                \o <<Call("claim", 0), Call("gen", 0)>> \o r
    BY <1>3 DEF siggen_stop, Instead, Leave
  <2>2. Clean(r, 0)
    BY <1>1, PoppedStop DEF Calm
  <2>3. todo' = Off0(t) /\ IsSequence(t)
    BY <1>2, <2>1, StopCalls
  <2>4. Playing
    BY <1>3 DEF Calm, Silent
  <2>5. Ends(t)
    BY <2>2, <2>4 DEF Ends, Playing
  <2>6. Typed' /\ Windows' /\ Ends(t)'
    BY <1>1, <2>5 DEF Typed, Windows, Ends, board, soft
  <2>7. (sccp.two /\ dma.ch2 => dma.to \in Units /\ Runs(dma.to))'
    BY <1>1, <2>4 DEF Playing, Runs, Level, board, soft
  <2> QED
    BY <2>3, <2>6, <2>7 DEF SessionInv, Unwinding
<1>4. CASE ~(gen # 0 /\ Arg \in {0, gen})
  <2>1. todo' = <<>> \o Tail(todo)
    BY <1>4 DEF siggen_stop, Instead, Leave
  <2>2. todo' = Tail(todo)
    BY <1>2, <2>1, Assoc
  <2>3. gen = 0 \/ Head(todo)[2] \notin {0, gen}
    BY <1>1, <1>4
  <2>4. Clean(Tail(todo), gen)
    BY <1>1, <2>3, PoppedStop DEF Calm
  <2> QED
    BY <1>1, <2>2, <2>4, CalmStill DEF Still, Calm, Typed, soft, board
<1> QED
  BY <1>3, <1>4

(* The generator is started: the last call of its command. *)
LEMMA CalmStart ==
  ASSUME Typed, Windows, Calm, siggen_start PROVE SessionInv'
<1>1. Now("siggen_start") /\ todo # <<>> /\ UNCHANGED <<board, table, soft>>
  BY DEF siggen_start, Now
<1>2. Fits(todo, 1, gen) /\ todo[1][1] = "siggen_start" /\ Arg = todo[1][2]
  BY <1>1, AtHead DEF Calm
<1>3. gen = 0 /\ Arg \in Units \X Lengths /\ Len(todo) = 1
  BY <1>2 DEF Fits
<1>4. Tail(todo) = <<>>
  <2>1. PICK S : todo \in Seq(S)
    BY DEF Calm, Ready, IsSequence
  <2>2. Tail(todo) \in Seq(S) /\ Len(Tail(todo)) = Len(todo) - 1
    BY <1>1, <2>1
  <2> QED
    BY <1>3, <2>2, EmptySeq
<1> DEFINE u == Arg[1]
           n == Arg[2]
<1>5. CASE route = "signal" /\ u = 2
  <2>1. Leave(<<>>)
    BY <1>5 DEF siggen_start
  <2>2. Clean(todo', gen)
    BY <1>1, <2>1, GoesOn, Parts DEF Calm
  <2> QED
    BY <1>1, <2>2, CalmStill DEF Still, Calm, Typed, soft, board
<1>6. CASE ~(route = "signal" /\ u = 2)
  <2>1. todo' = dac_level_start(u, <<>>) \o <<Call("unask", u)>> \o dma_tx_start(u, n, dac_off(u))
                \o <<Try("sccp2_start", 0, Undo(u)), Call("claim", u), Call("gen", u)>>
                \o <<>>
    BY <1>4, <1>6 DEF siggen_start, Instead, Leave, Undo
  <2>2. u \in Units /\ n \in Lengths
    BY <1>3
  <2> HIDE DEF u, n
  <2> DEFINE r == TableRange(n)
  <2>3. todo' = On0(u, r)
    BY <2>1, StartCalls
  <2>4. r \in Spans \ {None}
    <3>1. table \in Nat \ {0} /\ n \in Nat \ {0}
      BY <2>2, BoardAssumption DEF Typed
    <3>2. table + n - 1 \in Nat
      BY <3>1
    <3> QED
      BY <3>1, <3>2 DEF TableRange, Spans, None
  <2> HIDE DEF r
  <2>5. Silent
    BY <1>3 DEF Calm, Playing, Units
  <2>6. Typed' /\ Windows' /\ gen' = 0 /\ Idle'
    BY <1>1, <2>5 DEF Typed, Windows, Silent, Idle, board, soft
  <2>7. Starting'
    BY <2>2, <2>3, <2>4, <2>6 DEF Starting
  <2> QED
    BY <2>6, <2>7 DEF SessionInv
<1> QED
  BY <1>5, <1>6
----------------------------------------------------------------------------
(* The calls of a start and of a stop: which action each of them is. *)
Phases == {"sccp2_stop", "dma2_stop", "dma2_window", "dma2_window_back", "window_write",
           "dac_unit_off", "dac_light_off", "clock_dac_on", "dac_enable", "dma2_enable",
           "sccp2_start", "unask", "claim", "gen"}
PhaseCall(f) ==
  /\ f = "sccp2_stop" => sccp2_stop /\ UNCHANGED soft
  /\ f = "dma2_stop" => dma2_stop /\ UNCHANGED soft
  /\ f = "dma2_window" => dma2_window /\ UNCHANGED soft
  /\ f = "dma2_window_back" => dma2_window_back /\ UNCHANGED soft
  /\ f = "window_write" => window_write /\ UNCHANGED soft
  /\ f = "dac_unit_off" => dac_unit_off /\ UNCHANGED soft
  /\ f = "dac_light_off" => dac_light_off /\ UNCHANGED soft
  /\ f = "clock_dac_on" => clock_dac_on /\ UNCHANGED soft
  /\ f = "dac_enable" => dac_enable /\ UNCHANGED soft
  /\ f = "dma2_enable" => dma2_enable /\ UNCHANGED soft
  /\ f = "sccp2_start" => sccp2_start /\ UNCHANGED soft
  /\ f = "unask" => unask
  /\ f = "claim" => set_claim
  /\ f = "gen" => set_gen

LEMMA CallOf ==
  ASSUME SessionNext, NEW f \in Phases, Now(f) PROVE Brake \/ PhaseCall(f)
<1>1. todo # <<>> /\ Head(todo)[1] = f
  BY DEF Now
<1>2. ~Command
  <2> SUFFICES ASSUME NEW p, Type(p) PROVE FALSE
    BY DEF Command, DacOn, DacOff, SiggenOn, SiggenOff, StreamOn, StreamOnInput, StreamOff,
           StreamGrab, Buf
  <2> QED
    BY <1>1 DEF Type, Begin, Rest
<1>3. CASE SessionCall
  <2>1. CASE set_gen \/ set_claim \/ unask
    BY <1>1, <2>1 DEF set_gen, set_claim, unask, Soft, PhaseCall, Now
  <2>2. CASE \E g \in {"armed", "chain", "run", "busy", "powered", "half"} : Cap(g)
    BY <1>1, <2>2 DEF Cap, Now, Phases
  <2>3. CASE \/ capture_settle \/ capture_init \/ core_down \/ capture_start \/ restart
             \/ restore_dac2 \/ set_ok \/ set_route \/ set_stream \/ ask
    BY <1>1, <2>3 DEF capture_settle, capture_init, core_down, capture_start, restart,
                      restore_dac2, set_ok, set_route, set_stream, ask, Soft, Now, Phases
  <2>4. CASE route_applied \/ chain_stream_off \/ stream_on_route \/ siggen_stop \/ siggen_start
    <3>1. Now("route_applied") \/ Now("stream_off") \/ Now("stream_on_route")
          \/ Now("siggen_stop") \/ Now("siggen_start")
      BY <2>4 DEF route_applied, chain_stream_off, stream_on_route, siggen_stop, siggen_start
    <3> QED
      BY <1>1, <3>1 DEF Now, Phases
  <2> QED
    BY <1>3, <2>1, <2>2, <2>3, <2>4 DEF SessionCall
<1>4. CASE DriverCall /\ UNCHANGED soft
  <2>1. CASE \/ clock_dac_on \/ dac_enable \/ dac_unit_off \/ dac_light_off \/ window_write
             \/ dma2_stop \/ dma2_window \/ dma2_enable \/ dma2_window_back
             \/ sccp2_start \/ sccp2_stop
    <3>1. /\ clock_dac_on => f = "clock_dac_on"
          /\ dac_enable => f = "dac_enable"
          /\ dac_unit_off => f = "dac_unit_off"
          /\ dac_light_off => f = "dac_light_off"
          /\ window_write => f = "window_write"
          /\ dma2_stop => f = "dma2_stop"
          /\ dma2_window => f = "dma2_window"
          /\ dma2_enable => f = "dma2_enable"
          /\ dma2_window_back => f = "dma2_window_back"
          /\ sccp2_start => f = "sccp2_start"
          /\ sccp2_stop => f = "sccp2_stop"
      BY <1>1 DEF clock_dac_on, dac_enable, dac_unit_off, dac_light_off, window_write, dma2_stop,
                  dma2_window, dma2_enable, dma2_window_back, sccp2_start, sccp2_stop, Now
    <3> QED
      BY <1>4, <2>1, <3>1 DEF PhaseCall
  <2>2. CASE \/ dma_off_if_idle \/ dma0_stop \/ dma0_window \/ dma0_enable
    BY <1>1, <2>2 DEF dma_off_if_idle, dma0_stop, dma0_window, dma0_enable, Now, Phases
  <2>3. CASE OtherDriver
    <3>1. \E g \in Others : Now(g)
      <4>1. CASE clock_dac_select \/ uref_set \/ sccp1_start \/ sccp1_stop \/ sccp1_count
                 \/ adc_reinit \/ adc_init
        BY <4>1 DEF clock_dac_select, uref_set, sccp1_start, sccp1_stop, sccp1_count,
                    adc_reinit, adc_init, Others
      <4>2. CASE \/ adc_deinit \/ adc_set_input \/ adc_set_mode_burst \/ adc_set_mode_single
                 \/ adc_set_irqsel \/ adc_ch0_irq \/ step_on
                 \/ adc_set_mode_oversample \/ adc_set_trg2 \/ adc_set_period
        <5>1. \E g \in Others : \E new : Adc(g, new)
          BY <4>2 DEF adc_deinit, adc_set_input, adc_set_mode_burst, adc_set_mode_single,
                      adc_set_irqsel, adc_ch0_irq, step_on, adc_set_mode_oversample,
                      adc_set_trg2, adc_set_period, Others
        <5> QED
          BY <5>1 DEF Adc
      <4>3. CASE clock_adc_set_pll \/ clock_adc_set_div \/ clock_trig_on \/ clock_adc_gate
        BY <4>3 DEF clock_adc_set_pll, clock_adc_set_div, clock_trig_on, clock_adc_gate,
                    Switch, Others
      <4> QED
        BY <2>3, <4>1, <4>2, <4>3 DEF OtherDriver
    <3> QED
      BY <1>1, <3>1 DEF Now, Others, Phases
  <2> QED
    BY <1>4, <2>1, <2>2, <2>3 DEF DriverCall, OtherDriver
<1> QED
  BY <1>2, <1>3, <1>4 DEF SessionNext

(* The invariant stands while the generator, its DAC and the window are    *)
(* left alone; channel 0 may go off.                                       *)
LEMMA Beside ==
  ASSUME SessionInv, UNCHANGED <<todo, dac, clk, sccp, table, gen, claim>>,
         DOMAIN dma' = DOMAIN dma, dma'.ch0 => dma.ch0,
         UNCHANGED <<dma.on, dma.window, dma.ch2, dma.win0, dma.win1, dma.range0, dma.range2, dma.to>>,
         "half" \in DOMAIN cap', cap'.half = cap.half
  PROVE  SessionInv'
<1>1. UNCHANGED <<todo, dac, clk, sccp, table, gen, claim>>
  OBVIOUS
<1>2. /\ DOMAIN dma' = DOMAIN dma /\ (dma'.ch0 => dma.ch0)
      /\ UNCHANGED <<dma.on, dma.window, dma.ch2, dma.win0, dma.win1, dma.range0, dma.range2, dma.to>>
      /\ "half" \in DOMAIN cap' /\ cap'.half = cap.half
  OBVIOUS
<1>3. Typed' /\ Windows'
  BY <1>1, <1>2 DEF SessionInv, Typed, Windows
<1>4. UNCHANGED <<Playing, Silent, Idle>> /\ \A u : UNCHANGED <<Runs(u), Level(u)>>
  BY <1>1, <1>2 DEF Playing, Silent, Idle, Runs, Level
<1>5. CASE Calm
  <2>1. Ready(todo, gen, dma')
    BY <1>2, <1>5 DEF Calm, Ready, ArmsNow
  <2> QED
    BY <1>1, <1>3, <1>4, <1>5, <2>1 DEF SessionInv, Calm
<1>6. CASE Unwinding
  <2>1. PICK t : IsSequence(t) /\ Ends(t)
                 /\ \/ todo = Off0(t) /\ (sccp.two /\ dma.ch2 => dma.to \in Units /\ Runs(dma.to))
                    \/ todo = Off1(t) /\ ~sccp.two
                    \/ todo \in {Off2(t), Off3(t), Shrink(t)} /\ ~sccp.two /\ ~dma.ch2
    BY <1>6 DEF Unwinding
  <2>2. Ends(t)'
    BY <1>1, <2>1 DEF Ends
  <2>3. (sccp.two /\ dma.ch2 => dma.to \in Units /\ Runs(dma.to))
        => (sccp.two /\ dma.ch2 => dma.to \in Units /\ Runs(dma.to))'
    BY <1>1, <1>2 DEF Runs, Level
  <2> QED
    BY <1>1, <1>2, <1>3, <2>1, <2>2, <2>3 DEF SessionInv, Unwinding
<1>7. CASE Leaving
  BY <1>1, <1>2, <1>3, <1>7 DEF SessionInv, Leaving
<1>8. CASE Starting
  BY <1>1, <1>2, <1>3, <1>4, <1>8 DEF SessionInv, Starting
<1> QED
  BY <1>5, <1>6, <1>7, <1>8 DEF SessionInv

(* The brake takes channel 0 away, which nothing here needs. *)
LEMMA BrakeStep ==
  ASSUME SessionInv, Brake PROVE SessionInv'
<1>1. /\ UNCHANGED <<todo, dac, clk, sccp, table, gen, claim>>
      /\ dma' = [dma EXCEPT !.ch0 = FALSE]
      /\ cap' = [cap EXCEPT !.run = FALSE, !.armed = FALSE, !.busy = FALSE]
  BY DEF Brake, soft
<1>2. /\ DOMAIN dma' = DOMAIN dma /\ ~dma'.ch0
      /\ UNCHANGED <<dma.on, dma.window, dma.ch2, dma.win0, dma.win1, dma.range0, dma.range2, dma.to>>
      /\ "half" \in DOMAIN cap' /\ cap'.half = cap.half
  BY <1>1 DEF SessionInv, Typed
<1> QED
  BY <1>1, <1>2, Beside

LEMMA SessionStutter ==
  ASSUME SessionInv, UNCHANGED vars PROVE SessionInv'
<1>1. /\ UNCHANGED <<todo, dac, clk, sccp, table, gen, claim>> /\ dma' = dma /\ cap' = cap
  BY DEF vars, board, soft
<1>2. "half" \in DOMAIN cap
  BY DEF SessionInv, Typed
<1> QED
  BY <1>1, <1>2, Beside
----------------------------------------------------------------------------
(* A stop, and what follows it. *)
LEMMA AtCall ==
  ASSUME NEW c, NEW t, IsSequence(t), todo = Push(c, t)
  PROVE  /\ todo # <<>> /\ Tail(todo) = t /\ Arg = c[2] /\ \A f : Now(f) <=> c[1] = f
         /\ Head(todo) = c /\ (Done => todo' = t)
  BY Pushed DEF Now, Arg, Done, Leave

LEMMA EndsThen ==
  ASSUME NEW t, Ends(t), Typed', Windows', UNCHANGED <<gen, claim>>, todo' = t,
         ~sccp'.two, ~dma'.ch2
  PROVE  SessionInv'
<1>1. PICK u \in Units : \/ gen = 0 /\ claim = 0 /\ t = Dark0(u, <<>>)
                         \/ gen = u /\ \E r : Clean(r, 0) /\ t = Dark0(u, Gone0(r))
  BY DEF Ends
<1>2. CASE gen = 0 /\ claim = 0 /\ t = Dark0(u, <<>>)
  <2>1. IsSequence(<<>>)
    <3>1. <<>> \in Seq({})
      OBVIOUS
    <3> QED
      BY <3>1 DEF IsSequence
  <2>2. t = dac_off(u)
    BY <1>2, <2>1, StopCalls
  <2>3. Sound(dac_off(u), 0)
    BY DacOffSound DEF Units
  <2>4. Ready(t, 0, dma')
    BY <2>2, <2>3, CleanReady DEF Sound
  <2>5. Silent'
    BY <1>2 DEF Silent, Idle
  <2> QED
    BY <1>2, <2>4, <2>5 DEF SessionInv, Calm
<1>3. CASE gen = u /\ \E r : Clean(r, 0) /\ t = Dark0(u, Gone0(r))
  BY <1>3 DEF SessionInv, Leaving
<1> QED
  BY <1>1, <1>2, <1>3

LEMMA UnwindingStep ==
  ASSUME Typed, Windows, Unwinding, SessionNext PROVE SessionInv'
<1>1. PICK t : IsSequence(t) /\ Ends(t)
               /\ \/ todo = Off0(t) /\ (sccp.two /\ dma.ch2 => dma.to \in Units /\ Runs(dma.to))
                  \/ todo = Off1(t) /\ ~sccp.two
                  \/ todo \in {Off2(t), Off3(t), Shrink(t)} /\ ~sccp.two /\ ~dma.ch2
  BY DEF Unwinding
<1>2. IsSequence(Off3(t)) /\ IsSequence(Off2(t)) /\ IsSequence(Off1(t))
  BY <1>1, Pushed DEF Off3, Off2, Off1
<1>3. CASE Brake
  BY <1>3, BrakeStep DEF SessionInv
<1>4. CASE ~Brake /\ todo = Off0(t)
  <2>1. Now("sccp2_stop") /\ (Done => todo' = Off1(t))
    BY <1>2, <1>4, AtCall DEF Off0, Do, Call, OrElse
  <2>2. sccp2_stop /\ UNCHANGED soft
    BY <1>4, <2>1, CallOf DEF Phases, PhaseCall
  <2>3. /\ todo' = Off1(t) /\ ~sccp'.two /\ "two" \in DOMAIN sccp'
        /\ UNCHANGED <<dac, clk, dma, cap, table, gen, claim>>
    BY <2>1, <2>2 DEF sccp2_stop, soft, Typed
  <2>4. Typed' /\ Windows' /\ Ends(t)'
    BY <1>1, <2>3 DEF Typed, Windows, Ends
  <2> QED
    BY <1>1, <2>3, <2>4 DEF SessionInv, Unwinding
<1>5. CASE ~Brake /\ todo = Off1(t) /\ ~sccp.two
  <2>1. Now("dma2_stop") /\ (Done => todo' = Off2(t))
    BY <1>2, <1>5, AtCall DEF Off1, Do, Call, OrElse
  <2>2. dma2_stop /\ UNCHANGED soft
    BY <1>5, <2>1, CallOf DEF Phases, PhaseCall
  <2>3. /\ todo' = Off2(t) /\ ~dma'.ch2 /\ DOMAIN dma' = DOMAIN dma
        /\ UNCHANGED <<dma.window, dma.ch0, dma.win0, dma.win1, dma.range0>>
        /\ UNCHANGED <<dac, clk, sccp, cap, table, gen, claim>>
    BY <2>1, <2>2 DEF dma2_stop, soft, Typed
  <2>4. Typed' /\ Windows' /\ Ends(t)'
    BY <1>1, <2>3 DEF Typed, Windows, Ends
  <2> QED
    BY <1>1, <1>5, <2>3, <2>4 DEF SessionInv, Unwinding
<1>6. CASE ~Brake /\ todo = Off2(t) /\ ~sccp.two /\ ~dma.ch2
  <2>1. Now("dma2_window") /\ (Done => todo' = Off3(t)) /\ Arg = None
    BY <1>2, <1>6, AtCall DEF Off2, Do, Call, OrElse
  <2>2. dma2_window /\ UNCHANGED soft
    BY <1>6, <2>1, CallOf DEF Phases, PhaseCall
  <2>3. /\ todo' = Off3(t) /\ dma'.win1 = None /\ DOMAIN dma' = DOMAIN dma
        /\ UNCHANGED <<dma.window, dma.ch0, dma.ch2, dma.win0, dma.range0>>
        /\ UNCHANGED <<dac, clk, sccp, cap, table, gen, claim>>
    BY <2>1, <2>2 DEF dma2_window, soft, Typed
  <2>4. Typed' /\ Windows' /\ Ends(t)'
    BY <1>1, <1>6, <2>3 DEF Typed, Windows, Ends, None, Spans
  <2> QED
    BY <1>1, <1>6, <2>3, <2>4 DEF SessionInv, Unwinding
<1>7. CASE ~Brake /\ todo = Off3(t) /\ ~sccp.two /\ ~dma.ch2
  <2>1. Now("dma2_window_back") /\ Tail(todo) = t
    BY <1>1, <1>7, AtCall DEF Off3, Do, Call, OrElse
  <2>2. dma2_window_back /\ UNCHANGED soft
    BY <1>7, <2>1, CallOf DEF Phases, PhaseCall
  <2>3. /\ todo' = Shrink(t) \/ todo' = t
        /\ UNCHANGED <<dac, clk, dma, sccp, cap, table, gen, claim>>
    <3>1. todo' = <<Do("window_write")>> \o t \/ todo' = <<>> \o t
      BY <2>1, <2>2 DEF dma2_window_back, Instead, Leave
    <3>2. <<>> \o t = t
      BY <1>1, Assoc
    <3> QED
      BY <2>2, <3>1, <3>2 DEF dma2_window_back, board, soft, Shrink, Push
  <2>4. Typed' /\ Windows' /\ Ends(t)'
    BY <1>1, <2>3 DEF Typed, Windows, Ends
  <2>5. CASE todo' = Shrink(t)
    BY <1>1, <1>7, <2>3, <2>4, <2>5 DEF SessionInv, Unwinding
  <2>6. CASE todo' = t
    BY <1>1, <1>7, <2>3, <2>4, <2>6, EndsThen
  <2> QED
    BY <2>3, <2>5, <2>6
<1>8. CASE ~Brake /\ todo = Shrink(t) /\ ~sccp.two /\ ~dma.ch2
  <2>1. Now("window_write") /\ (Done => todo' = t)
    BY <1>1, <1>8, AtCall DEF Shrink, Do, Call, OrElse
  <2>2. window_write /\ UNCHANGED soft
    BY <1>8, <2>1, CallOf DEF Phases, PhaseCall
  <2>3. /\ todo' = t /\ dma' = [dma EXCEPT !.window = Window(dma.win0, dma.win1)]
        /\ UNCHANGED <<dac, clk, sccp, cap, table, gen, claim>>
    BY <2>1, <2>2 DEF window_write, soft
  <2>4. Windows' /\ DOMAIN dma' = DOMAIN dma /\ UNCHANGED dma.ch2
    BY <2>3, WindowWritten
  <2>5. Typed'
    BY <2>3, <2>4 DEF Typed
  <2> QED
    BY <1>1, <1>8, <2>3, <2>4, <2>5, EndsThen
<1> QED
  BY <1>1, <1>3, <1>4, <1>5, <1>6, <1>7, <1>8

(* The end of a stop: the output, the claim, the generator's own mark. *)
LEMMA LeavingStep ==
  ASSUME Typed, Windows, Leaving, SessionNext PROVE SessionInv'
<1> PICK u \in Units : \E r :
        /\ ~sccp.two /\ ~dma.ch2 /\ gen = u /\ Clean(r, 0)
        /\ \/ todo \in {Dark0(u, Gone0(r)), Dark1(Gone0(r)), Gone0(r)}
           \/ todo = Gone1(r) /\ claim = 0
  BY DEF Leaving
<1>1. PICK r :
        /\ gen = u /\ Clean(r, 0) /\ ~sccp.two /\ ~dma.ch2
        /\ \/ todo \in {Dark0(u, Gone0(r)), Dark1(Gone0(r)), Gone0(r)}
           \/ todo = Gone1(r) /\ claim = 0
  OBVIOUS
<1>2. IsSequence(r) /\ IsSequence(Gone1(r)) /\ IsSequence(Gone0(r)) /\ IsSequence(Dark1(Gone0(r)))
  <2>1. IsSequence(r)
    BY <1>1 DEF Clean
  <2> QED
    BY <2>1, StopCalls
<1>3. CASE Brake
  BY <1>3, BrakeStep DEF SessionInv
<1>4. CASE ~Brake /\ todo = Dark0(u, Gone0(r))
  <2>1. Now("dac_unit_off") /\ (Done => todo' = Dark1(Gone0(r)))
    BY <1>2, <1>4, AtCall DEF Dark0, Call, OrElse
  <2>2. dac_unit_off /\ UNCHANGED soft
    BY <1>4, <2>1, CallOf DEF Phases, PhaseCall
  <2>3. /\ todo' = Dark1(Gone0(r)) /\ Units \subseteq DOMAIN dac'
        /\ UNCHANGED <<clk, dma, sccp, cap, table, gen, claim>>
    BY <2>1, <2>2 DEF dac_unit_off, soft, Typed
  <2>4. Typed' /\ Windows'
    BY <2>3 DEF Typed, Windows
  <2> QED
    BY <1>1, <2>3, <2>4 DEF SessionInv, Leaving
<1>5. CASE ~Brake /\ todo = Dark1(Gone0(r))
  <2>1. Now("dac_light_off") /\ (Done => todo' = Gone0(r))
    BY <1>2, <1>5, AtCall DEF Dark1, Do, Call, OrElse
  <2>2. dac_light_off /\ UNCHANGED soft
    BY <1>5, <2>1, CallOf DEF Phases, PhaseCall
  <2>3. /\ todo' = Gone0(r) /\ "dac" \in DOMAIN clk'
        /\ UNCHANGED <<dac, dma, sccp, cap, table, gen, claim>>
    BY <2>1, <2>2 DEF dac_light_off, soft, Typed
  <2>4. Typed' /\ Windows'
    BY <2>3 DEF Typed, Windows
  <2> QED
    BY <1>1, <2>3, <2>4 DEF SessionInv, Leaving
<1>6. CASE ~Brake /\ todo = Gone0(r)
  <2>1. Now("claim") /\ (Done => todo' = Gone1(r)) /\ Arg = 0
    BY <1>2, <1>6, AtCall DEF Gone0, Call, OrElse
  <2>2. set_claim
    BY <1>6, <2>1, CallOf DEF Phases, PhaseCall
  <2>3. /\ todo' = Gone1(r) /\ claim' = 0
        /\ UNCHANGED <<dac, clk, dma, sccp, cap, table, gen>>
    BY <2>1, <2>2 DEF set_claim, Soft, board
  <2>4. Typed' /\ Windows'
    BY <2>3 DEF Typed, Windows
  <2> QED
    BY <1>1, <2>3, <2>4 DEF SessionInv, Leaving
<1>7. CASE ~Brake /\ todo = Gone1(r) /\ claim = 0
  <2>1. Now("gen") /\ (Done => todo' = r) /\ Arg = 0
    BY <1>2, <1>7, AtCall DEF Gone1, Call, OrElse
  <2>2. set_gen
    BY <1>7, <2>1, CallOf DEF Phases, PhaseCall
  <2>3. /\ todo' = r /\ gen' = 0
        /\ UNCHANGED <<dac, clk, dma, sccp, cap, table, claim>>
    BY <2>1, <2>2 DEF set_gen, Soft, board
  <2>4. Typed' /\ Windows' /\ Silent'
    BY <1>1, <1>7, <2>3 DEF Typed, Windows, Silent, Idle
  <2>5. Ready(r, 0, dma')
    BY <1>1, CleanReady
  <2> QED
    BY <2>3, <2>4, <2>5 DEF SessionInv, Calm
<1> QED
  BY <1>1, <1>3, <1>4, <1>5, <1>6, <1>7

(* A start, call by call; each that can fail falls back on a stop of what  *)
(* is there.                                                               *)
LEMMA GivenUp ==
  ASSUME NEW c, NEW t, IsSequence(t), todo = Push(c, t), Failed,
         c[3] = Everything, IsSequence(c[4])
  PROVE  todo' = c[4]
<1>1. todo' = c[4] \o <<>>
  BY AtCall DEF Failed
<1> QED
  BY <1>1, Assoc

LEMMA StartingOutput ==
  ASSUME Typed, Windows, SessionNext, ~Brake, gen = 0, Idle, NEW u \in Units,
         NEW r \in Spans \ {None},
         \/ todo = On0(u, r)
         \/ todo = On1(u, r) /\ clk.dac # "off"
         \/ todo = On2(u, r) /\ Level(u)
         \/ todo = On3(u, r) /\ Level(u)
  PROVE  SessionInv'
<1>1. IsSequence(<<>>)
  <2>1. <<>> \in Seq({})
    OBVIOUS
  <2> QED
    BY <2>1 DEF IsSequence
<1>2. /\ IsSequence(On9(u)) /\ IsSequence(On8(u)) /\ IsSequence(On7(u)) /\ IsSequence(On6(u, r))
      /\ IsSequence(On5(u, r)) /\ IsSequence(On4(u, r)) /\ IsSequence(On3(u, r))
      /\ IsSequence(On2(u, r)) /\ IsSequence(On1(u, r))
  BY <1>1, Pushed DEF On9, On8, On7, On6, On5, On4, On3, On2, On1
<1>3. CASE todo = On0(u, r)
  <2> DEFINE c == OrElse("clock_dac_on", 0, Everything, <<>>)
  <2>1. c[1] = "clock_dac_on" /\ c[3] = Everything /\ c[4] = <<>>
    BY DEF OrElse
  <2>2. todo = Push(c, On1(u, r))
    BY <1>3 DEF On0
  <2> HIDE DEF c
  <2>3. Now("clock_dac_on") /\ (Done => todo' = On1(u, r)) /\ (Failed => todo' = <<>>)
    BY <1>1, <1>2, <2>1, <2>2, AtCall, GivenUp
  <2>4. clock_dac_on /\ UNCHANGED soft
    BY <2>3, CallOf DEF Phases, PhaseCall
  <2>5. UNCHANGED <<dac, dma, sccp, cap, table, gen, claim>> /\ "dac" \in DOMAIN clk'
        /\ ((todo' = On1(u, r) /\ clk'.dac # "off") \/ todo' = <<>>)
    BY <2>3, <2>4 DEF clock_dac_on, soft, Typed
  <2>6. Typed' /\ Windows' /\ Idle'
    BY <2>5 DEF Typed, Windows, Idle
  <2>7. CASE todo' = On1(u, r) /\ clk'.dac # "off"
    BY <2>5, <2>6, <2>7 DEF SessionInv, Starting
  <2>8. CASE todo' = <<>>
    <3>1. Ready(<<>>, 0, dma')
      BY Parts, CleanReady DEF Sound
    <3> QED
      BY <2>5, <2>6, <2>8, <3>1 DEF SessionInv, Calm, Silent
  <2> QED
    BY <2>5, <2>7, <2>8
<1>4. CASE todo = On1(u, r) /\ clk.dac # "off"
  <2>1. Now("dac_enable") /\ (Done => todo' = On2(u, r)) /\ Arg = <<u, "level">>
    BY <1>2, <1>4, AtCall DEF On1, Call, OrElse
  <2>2. dac_enable /\ UNCHANGED soft
    BY <2>1, CallOf DEF Phases, PhaseCall
  <2>3. /\ todo' = On2(u, r) /\ dac'[u] = "level" /\ Units \subseteq DOMAIN dac'
        /\ UNCHANGED <<clk, dma, sccp, cap, table, gen, claim>>
    BY <2>1, <2>2 DEF dac_enable, soft, Typed
  <2>4. Typed' /\ Windows' /\ Idle' /\ Level(u)'
    BY <1>4, <2>3 DEF Typed, Windows, Idle, Level
  <2> QED
    BY <2>3, <2>4 DEF SessionInv, Starting
<1>5. CASE todo = On2(u, r) /\ Level(u)
  <2>1. Now("unask") /\ (Done => todo' = On3(u, r))
    BY <1>2, <1>5, AtCall DEF On2, Call, OrElse
  <2>2. unask
    BY <2>1, CallOf DEF Phases, PhaseCall
  <2>3. todo' = On3(u, r) /\ UNCHANGED <<dac, clk, dma, sccp, cap, table, gen, claim>>
    BY <2>1, <2>2 DEF unask, Soft, board
  <2>4. Typed' /\ Windows' /\ Idle' /\ Level(u)'
    BY <1>5, <2>3 DEF Typed, Windows, Idle, Level
  <2> QED
    BY <2>3, <2>4 DEF SessionInv, Starting
<1>6. CASE todo = On3(u, r) /\ Level(u)
  <2>1. Now("dma2_stop") /\ (Done => todo' = On4(u, r))
    BY <1>2, <1>6, AtCall DEF On3, Do, Call, OrElse
  <2>2. dma2_stop /\ UNCHANGED soft
    BY <2>1, CallOf DEF Phases, PhaseCall
  <2>3. /\ todo' = On4(u, r) /\ ~dma'.ch2 /\ DOMAIN dma' = DOMAIN dma
        /\ UNCHANGED <<dma.window, dma.ch0, dma.win0, dma.win1, dma.range0>>
        /\ UNCHANGED <<dac, clk, sccp, cap, table, gen, claim>>
    BY <2>1, <2>2 DEF dma2_stop, soft, Typed
  <2>4. Typed' /\ Windows' /\ Idle' /\ Level(u)'
    BY <1>6, <2>3 DEF Typed, Windows, Idle, Level
  <2> QED
    BY <2>3, <2>4 DEF SessionInv, Starting
<1> QED
  BY <1>3, <1>4, <1>5, <1>6

LEMMA StartingTransport ==
  ASSUME Typed, Windows, SessionNext, ~Brake, gen = 0, Idle, NEW u \in Units, Level(u),
         NEW r \in Spans \ {None},
         \/ todo = On4(u, r)
         \/ todo = On5(u, r) /\ dma.win1 = r
         \/ todo = On6(u, r) /\ dma.win1 = r /\ Within(r, dma.window)
  PROVE  SessionInv'
<1>1. /\ IsSequence(<<>>) /\ IsSequence(Undo(u)) /\ IsSequence(dac_off(u))
  <2>1. <<>> \in Seq({})
    OBVIOUS
  <2>2. IsSequence(<<>>)
    BY <2>1 DEF IsSequence
  <2> QED
    BY <2>2, StopCalls
<1>2. /\ IsSequence(On9(u)) /\ IsSequence(On8(u)) /\ IsSequence(On7(u)) /\ IsSequence(On6(u, r))
      /\ IsSequence(On5(u, r))
  BY <1>1, Pushed DEF On9, On8, On7, On6, On5
<1>3. CASE todo = On4(u, r)
  <2>1. Now("dma2_window") /\ (Done => todo' = On5(u, r)) /\ Arg = r
    BY <1>2, <1>3, AtCall DEF On4, Call, OrElse
  <2>2. dma2_window /\ UNCHANGED soft
    BY <2>1, CallOf DEF Phases, PhaseCall
  <2>3. /\ todo' = On5(u, r) /\ dma'.win1 = r /\ DOMAIN dma' = DOMAIN dma
        /\ UNCHANGED <<dma.window, dma.ch0, dma.ch2, dma.win0, dma.range0>>
        /\ UNCHANGED <<dac, clk, sccp, cap, table, gen, claim>>
    BY <2>1, <2>2 DEF dma2_window, soft, Typed
  <2>4. Typed' /\ Windows' /\ Idle' /\ Level(u)'
    BY <2>3 DEF Typed, Windows, Idle, Level
  <2> QED
    BY <2>3, <2>4 DEF SessionInv, Starting
<1>4. CASE todo = On5(u, r) /\ dma.win1 = r
  <2>1. Now("window_write") /\ (Done => todo' = On6(u, r))
    BY <1>2, <1>4, AtCall DEF On5, Do, Call, OrElse
  <2>2. window_write /\ UNCHANGED soft
    BY <2>1, CallOf DEF Phases, PhaseCall
  <2>3. /\ todo' = On6(u, r) /\ dma' = [dma EXCEPT !.window = Window(dma.win0, dma.win1)]
        /\ UNCHANGED <<dac, clk, sccp, cap, table, gen, claim>>
    BY <2>1, <2>2 DEF window_write, soft
  <2>4. /\ Windows' /\ DOMAIN dma' = DOMAIN dma /\ UNCHANGED <<dma.ch2, dma.win1>>
        /\ dma.win1 # None => Within(dma.win1, dma'.window)
    BY <2>3, WindowWritten
  <2>5. Typed' /\ Idle' /\ Level(u)' /\ Within(r, dma'.window)
    BY <1>4, <2>3, <2>4 DEF Typed, Idle, Level
  <2> QED
    BY <1>4, <2>3, <2>4, <2>5 DEF SessionInv, Starting
<1>5. CASE todo = On6(u, r) /\ dma.win1 = r /\ Within(r, dma.window)
  <2> DEFINE c == Try("dma2_enable", <<r, u>>, dac_off(u))
  <2>1. c[1] = "dma2_enable" /\ c[2] = <<r, u>> /\ c[3] = Everything /\ c[4] = dac_off(u)
    BY DEF Try, OrElse
  <2>2. todo = Push(c, On7(u))
    BY <1>5 DEF On6
  <2> HIDE DEF c
  <2>3. /\ Now("dma2_enable") /\ (Done => todo' = On7(u)) /\ (Failed => todo' = dac_off(u))
        /\ Arg = <<r, u>>
    <3>1. IsSequence(c[4])
      BY <1>1, <2>1
    <3>2. Failed => todo' = c[4]
      BY <1>2, <2>1, <2>2, <3>1, GivenUp
    <3>3. /\ \A f : Now(f) <=> c[1] = f
          /\ Done => todo' = On7(u)
          /\ Arg = c[2]
      BY <1>2, <2>2, AtCall
    <3> QED
      BY <2>1, <3>2, <3>3
  <2>4. dma2_enable /\ UNCHANGED soft
    BY <2>3, CallOf DEF Phases, PhaseCall
  <2>5. UNCHANGED <<dac, clk, sccp, cap, table, gen, claim>>
    BY <2>4 DEF dma2_enable, soft
  <2>6. CASE todo' = On7(u) /\ dma' = [dma EXCEPT !.on = TRUE, !.ch2 = TRUE, !.range2 = Arg[1],
                                                  !.to = Arg[2]]
    <3>1. /\ dma'.on /\ dma'.ch2 /\ dma'.to = u /\ dma'.range2 = r /\ DOMAIN dma' = DOMAIN dma
          /\ UNCHANGED <<dma.window, dma.ch0, dma.win0, dma.win1, dma.range0>>
      BY <2>3, <2>6 DEF Typed
    <3>2. Typed' /\ Windows'
      BY <1>5, <2>5, <3>1 DEF Typed, Windows
    <3>3. Level(u)' /\ ~sccp'.two /\ claim' = 0 /\ gen' = 0
      BY <2>5 DEF Level, Idle
    <3> QED
      BY <2>6, <3>1, <3>2, <3>3 DEF SessionInv, Starting
  <2>7. CASE todo' = dac_off(u) /\ dma' = [dma EXCEPT !.on = TRUE, !.range2 = Arg[1], !.to = Arg[2]]
    <3>1. /\ UNCHANGED <<dma.window, dma.ch0, dma.ch2, dma.win0, dma.win1, dma.range0>>
          /\ DOMAIN dma' = DOMAIN dma
      BY <2>7 DEF Typed
    <3>2. Typed' /\ Windows' /\ Silent'
      BY <2>5, <3>1 DEF Typed, Windows, Silent, Idle
    <3>3. Sound(dac_off(u), 0)
      BY DacOffSound DEF Units
    <3>4. Ready(dac_off(u), 0, dma')
      BY <3>3, CleanReady DEF Sound
    <3> QED
      BY <2>5, <2>7, <3>2, <3>4 DEF SessionInv, Calm
  <2> QED
    BY <2>3, <2>4, <2>6, <2>7 DEF dma2_enable
<1> QED
  BY <1>3, <1>4, <1>5

LEMMA StartingPace ==
  ASSUME Typed, Windows, SessionNext, ~Brake, gen = 0, NEW u \in Units, Level(u),
         NEW r \in Spans \ {None}, dma.on, dma.ch2, dma.to = u,
         \/ todo = On7(u) /\ ~sccp.two /\ claim = 0
         \/ todo = On8(u) /\ sccp.two /\ claim = 0
         \/ todo = On9(u) /\ sccp.two /\ claim = u
  PROVE  SessionInv'
<1>1. /\ IsSequence(<<>>) /\ IsSequence(Undo(u)) /\ Undo(u) = Off0(Dark0(u, <<>>))
      /\ IsSequence(Dark0(u, <<>>))
  <2>1. <<>> \in Seq({})
    OBVIOUS
  <2>2. IsSequence(<<>>)
    BY <2>1 DEF IsSequence
  <2> QED
    BY <2>2, StopCalls
<1>2. IsSequence(On9(u)) /\ IsSequence(On8(u)) /\ IsSequence(On7(u))
  BY <1>1, Pushed DEF On9, On8, On7
<1>3. CASE todo = On7(u) /\ ~sccp.two /\ claim = 0
  <2> DEFINE c == Try("sccp2_start", 0, Undo(u))
  <2>1. c[1] = "sccp2_start" /\ c[3] = Everything /\ c[4] = Undo(u)
    BY DEF Try, OrElse
  <2>2. todo = Push(c, On8(u))
    BY <1>3 DEF On7
  <2> HIDE DEF c
  <2>3. Now("sccp2_start") /\ (Done => todo' = On8(u)) /\ (Failed => todo' = Undo(u))
    BY <1>1, <1>2, <2>1, <2>2, AtCall, GivenUp
  <2>4. sccp2_start /\ UNCHANGED soft
    BY <2>3, CallOf DEF Phases, PhaseCall
  <2>5. /\ UNCHANGED <<dac, clk, dma, cap, table, gen, claim>> /\ "two" \in DOMAIN sccp'
        /\ (todo' = On8(u) /\ sccp'.two) \/ todo' = Undo(u)
    BY <2>3, <2>4 DEF sccp2_start, soft, Typed
  <2>6. Typed' /\ Windows' /\ Level(u)'
    BY <2>5 DEF Typed, Windows, Level
  <2>7. CASE todo' = On8(u) /\ sccp'.two
    <3>1. Runs(u)'
      BY <2>5, <2>6, <2>7 DEF Runs
    <3> QED
      BY <1>3, <2>5, <2>6, <2>7, <3>1 DEF SessionInv, Starting
  <2>8. CASE todo' = Undo(u)
    <3> PICK t : t = Dark0(u, <<>>)
      OBVIOUS
    <3>1. Ends(t)' /\ IsSequence(t) /\ todo' = Off0(t)
      BY <1>1, <1>3, <2>5, <2>8 DEF Ends
    <3>2. (sccp.two /\ dma.ch2 => dma.to \in Units /\ Runs(dma.to))'
      BY <2>5, <2>6 DEF Runs, Level
    <3> QED
      BY <2>6, <3>1, <3>2 DEF SessionInv, Unwinding
  <2> QED
    BY <2>5, <2>7, <2>8
<1>4. CASE todo = On8(u) /\ sccp.two /\ claim = 0
  <2>1. Now("claim") /\ (Done => todo' = On9(u)) /\ Arg = u
    BY <1>2, <1>4, AtCall DEF On8, Call, OrElse
  <2>2. set_claim
    BY <2>1, CallOf DEF Phases, PhaseCall
  <2>3. todo' = On9(u) /\ claim' = u /\ UNCHANGED <<dac, clk, dma, sccp, cap, table, gen>>
    BY <2>1, <2>2 DEF set_claim, Soft, board
  <2>4. Typed' /\ Windows' /\ Runs(u)'
    BY <1>4, <2>3 DEF Typed, Windows, Runs, Level
  <2> QED
    BY <2>3, <2>4 DEF SessionInv, Starting
<1>5. CASE todo = On9(u) /\ sccp.two /\ claim = u
  <2>1. Now("gen") /\ (Done => todo' = <<>>) /\ Arg = u
    BY <1>1, <1>5, AtCall DEF On9, Call, OrElse
  <2>2. set_gen
    BY <2>1, CallOf DEF Phases, PhaseCall
  <2>3. todo' = <<>> /\ gen' = u /\ UNCHANGED <<dac, clk, dma, sccp, cap, table, claim>>
    BY <2>1, <2>2 DEF set_gen, Soft, board
  <2>4. Typed' /\ Windows' /\ Playing'
    BY <1>5, <2>3 DEF Typed, Windows, Playing, Runs, Level
  <2>5. Ready(<<>>, u, dma')
    BY Parts, CleanReady DEF Sound
  <2> QED
    BY <2>3, <2>4, <2>5 DEF SessionInv, Calm
<1> QED
  BY <1>3, <1>4, <1>5

LEMMA StartingStep ==
  ASSUME Typed, Windows, Starting, SessionNext PROVE SessionInv'
<1>1. CASE Brake
  BY <1>1, BrakeStep DEF SessionInv
<1>2. CASE ~Brake
  <2>1. PICK u \in Units, r \in Spans \ {None} :
          \/ todo = On0(u, r) /\ Idle
          \/ todo = On1(u, r) /\ Idle /\ clk.dac # "off"
          \/ todo \in {On2(u, r), On3(u, r), On4(u, r)} /\ Idle /\ Level(u)
          \/ todo = On5(u, r) /\ Idle /\ Level(u) /\ dma.win1 = r
          \/ todo = On6(u, r) /\ Idle /\ Level(u) /\ dma.win1 = r /\ Within(r, dma.window)
          \/ todo = On7(u) /\ dma.on /\ dma.ch2 /\ dma.to = u /\ Level(u) /\ ~sccp.two /\ claim = 0
          \/ todo = On8(u) /\ Runs(u) /\ claim = 0
          \/ todo = On9(u) /\ Runs(u) /\ claim = u
    BY DEF Starting
  <2>2. gen = 0
    BY DEF Starting
  <2>3. Runs(u) => sccp.two /\ dma.on /\ dma.ch2 /\ dma.to = u /\ Level(u)
    BY DEF Runs
  <2> QED
    BY <1>2, <2>1, <2>2, <2>3, StartingOutput, StartingTransport, StartingPace
<1> QED
  BY <1>1, <1>2
----------------------------------------------------------------------------
(* The commands. *)
LEMMA FourCalls ==
  ASSUME NEW a, NEW b, NEW c, NEW d
  PROVE  LET s == <<a>> \o <<b, c>> \o <<d>>
         IN  IsSequence(s) /\ Len(s) = 4 /\ s[1] = a /\ s[2] = b /\ s[3] = c /\ s[4] = d
<1> DEFINE x == <<a>>
           y == <<b, c>>
           z == <<d>>
           w == x \o y
           s == w \o z
<1>1. /\ x \in Seq({a}) /\ y \in Seq({b, c}) /\ z \in Seq({d})
      /\ Len(x) = 1 /\ Len(y) = 2 /\ Len(z) = 1
      /\ x[1] = a /\ y[1] = b /\ y[2] = c /\ z[1] = d
  OBVIOUS
<1> HIDE DEF x, y, z
<1>2. IsSequence(x) /\ IsSequence(y) /\ IsSequence(z)
  BY <1>1 DEF IsSequence
<1>3. /\ IsSequence(x \o y) /\ Len(x \o y) = Len(x) + Len(y)
      /\ \A i \in 1 .. Len(x) : (x \o y)[i] = x[i]
      /\ \A i \in 1 .. Len(y) : (x \o y)[Len(x) + i] = y[i]
  BY <1>2, Joining
<1>4. IsSequence(w) /\ Len(w) = 3 /\ w[1] = a /\ w[2] = b /\ w[3] = c
  <2>1. 1 \in 1 .. Len(x) /\ 1 \in 1 .. Len(y) /\ 2 \in 1 .. Len(y)
    BY <1>1
  <2> QED
    BY <1>1, <1>3, <2>1
<1> HIDE DEF w
<1>5. /\ IsSequence(w \o z) /\ Len(w \o z) = Len(w) + Len(z)
      /\ \A i \in 1 .. Len(w) : (w \o z)[i] = w[i]
      /\ \A i \in 1 .. Len(z) : (w \o z)[Len(w) + i] = z[i]
  <2>1. IsSequence(w) /\ IsSequence(z)
    BY <1>2, <1>4
  <2> HIDE DEF s
  <2> QED
    BY <2>1, Joining
<1>6. IsSequence(s) /\ Len(s) = 4 /\ s[1] = a /\ s[2] = b /\ s[3] = c /\ s[4] = d
  <2>1. 1 \in 1 .. Len(w) /\ 2 \in 1 .. Len(w) /\ 3 \in 1 .. Len(w) /\ 1 \in 1 .. Len(z)
    BY <1>1, <1>4
  <2> QED
    BY <1>1, <1>4, <1>5, <2>1
<1> QED
  BY <1>6 DEF s, w, x, y, z

LEMMA DacCommands ==
  ASSUME NEW u \in Units, NEW g
  PROVE  /\ Clean(siggen_release_dac(u) \o dac_triangle_start(u, <<>>) \o <<Call("ask", u)>>, g)
         /\ Clean(siggen_release_dac(u) \o dac_off(u) \o <<Call("unask", u)>>, g)
<1>1. ASSUME NEW s, IsSequence(s), Len(s) = 4, s[1] = Call("siggen_stop", u),
             \/ /\ s[2] = OrElse("clock_dac_on", 0, Everything, <<>>)
                /\ s[3] = Call("dac_enable", <<u, "triangle">>)
                /\ s[4] = Call("ask", u)
             \/ /\ s[2] = Call("dac_unit_off", u)
                /\ s[3] = Do("dac_light_off")
                /\ s[4] = Call("unask", u)
      PROVE  Clean(s, g)
  <2>1. /\ s[1][1] = "siggen_stop" /\ s[1][2] = u
        /\ \/ /\ s[2][1] = "clock_dac_on" /\ s[3][1] = "dac_enable" /\ s[4][1] = "ask"
              /\ s[3][2] = <<u, "triangle">>
           \/ /\ s[2][1] = "dac_unit_off" /\ s[3][1] = "dac_light_off" /\ s[4][1] = "unask"
              /\ s[2][2] = u
    BY <1>1 DEF Call, Do, OrElse
  <2>2. \A i \in 1 .. 4 : s[i][3] \in {0, Everything} /\ s[i][4] = <<>>
    <3>1. \A i \in 1 .. 4 : i \in {1, 2, 3, 4}
      OBVIOUS
    <3> QED
      BY <1>1, <3>1 DEF Call, Do, OrElse
  <2>3. \A i \in 2 .. 4 : Spared(s, i, g, u)
    <3>1. \A i \in 2 .. 4 : 1 \in 1 .. (i - 1)
      OBVIOUS
    <3> QED
      BY <2>1, <3>1 DEF Spared
  <2>4. ASSUME NEW i \in 1 .. Len(s) PROVE Fits(s, i, g) /\ Arms(s, i)
    <3>1. i \in {1, 2, 3, 4}
      BY <1>1
    <3>2. i # 1 => Spared(s, i, g, u)
      BY <2>3, <3>1
    <3>3. s[i][3] \in {0, Everything} /\ s[i][3] # 1 /\ s[i][4] \in Fallbacks
      BY <2>2, <3>1, FallsBack DEF Everything
    <3>4. s[i][1] \in {"siggen_stop", "clock_dac_on", "dac_enable", "ask", "dac_unit_off",
                       "dac_light_off", "unask"}
      BY <2>1, <3>1
    <3>5. s[i][1] = "dac_unit_off" => s[i][2] = u /\ i # 1
      BY <2>1, <3>1
    <3>6. s[i][1] = "dac_enable" => s[i][2] = <<u, "triangle">> /\ i # 1
      BY <2>1, <3>1
    <3>7. s[i][1] = "dac_enable" => s[i][2] \in Units \X {"level", "triangle"} /\ s[i][2][1] = u /\ i # 1
      <4>1. <<u, "triangle">> \in Units \X {"level", "triangle"} /\ <<u, "triangle">>[1] = u
        OBVIOUS
      <4> QED
        BY <3>6, <4>1
    <3> QED
      BY <3>2, <3>3, <3>4, <3>5, <3>7 DEF Fits, Arms, GenCalls
  <2> QED
    BY <1>1, <2>4 DEF Clean
<1>2. /\ siggen_release_dac(u) = <<Call("siggen_stop", u)>>
      /\ dac_triangle_start(u, <<>>) = <<OrElse("clock_dac_on", 0, Everything, <<>>),
                                         Call("dac_enable", <<u, "triangle">>)>>
      /\ dac_off(u) = <<Call("dac_unit_off", u), Do("dac_light_off")>>
  BY DEF siggen_release_dac, dac_triangle_start, dac_start, dac_off
<1>3. Clean(siggen_release_dac(u) \o dac_triangle_start(u, <<>>) \o <<Call("ask", u)>>, g)
  <2> DEFINE a == Call("siggen_stop", u)
             b == OrElse("clock_dac_on", 0, Everything, <<>>)
             c == Call("dac_enable", <<u, "triangle">>)
             d == Call("ask", u)
             s == <<a>> \o <<b, c>> \o <<d>>
  <2>1. siggen_release_dac(u) \o dac_triangle_start(u, <<>>) \o <<Call("ask", u)>> = s
    BY <1>2
  <2> HIDE DEF a, b, c, d
  <2>2. IsSequence(s) /\ Len(s) = 4 /\ s[1] = a /\ s[2] = b /\ s[3] = c /\ s[4] = d
    BY FourCalls
  <2> HIDE DEF s
  <2>3. Clean(s, g)
    BY <1>1, <2>2 DEF a, b, c, d
  <2> QED
    BY <2>1, <2>3
<1>4. Clean(siggen_release_dac(u) \o dac_off(u) \o <<Call("unask", u)>>, g)
  <2> DEFINE a == Call("siggen_stop", u)
             b == Call("dac_unit_off", u)
             c == Do("dac_light_off")
             d == Call("unask", u)
             s == <<a>> \o <<b, c>> \o <<d>>
  <2>1. siggen_release_dac(u) \o dac_off(u) \o <<Call("unask", u)>> = s
    BY <1>2
  <2> HIDE DEF a, b, c, d
  <2>2. IsSequence(s) /\ Len(s) = 4 /\ s[1] = a /\ s[2] = b /\ s[3] = c /\ s[4] = d
    BY FourCalls
  <2> HIDE DEF s
  <2>3. Clean(s, g)
    BY <1>1, <2>2 DEF a, b, c, d
  <2> QED
    BY <2>1, <2>3
<1> QED
  BY <1>3, <1>4

LEMMA OtherCommands ==
  ASSUME NEW g
  PROVE  /\ \A u \in Units, n \in Lengths :
              Clean(<<Do("siggen_stop"), Call("siggen_start", <<u, n>>)>>, g)
         /\ Clean(<<Do("siggen_stop")>>, g)
         /\ \A r : Clean(<<Do("stream_off"), Call("stream_on_route", r)>>, g)
         /\ Clean(<<Do("stream_off")>>, g)
         /\ \A h \in Halves : Clean(<<Do("settle"), Call("half", h)>>, g)
<1>1. Plain("siggen_stop") /\ Plain("stream_off") /\ Plain("stream_on_route")
  BY DEF Plain, GenCalls
<1>2. Clean(<<Do("siggen_stop")>>, g) /\ Clean(<<Do("stream_off")>>, g)
  BY <1>1, Parts DEF Sound
<1>3. \A r : Clean(<<Do("stream_off"), Call("stream_on_route", r)>>, g)
  <2>1. Simple(Do("stream_off")) /\ \A r : Simple(Call("stream_on_route", r))
    BY <1>1, SimpleCalls
  <2> QED
    BY <2>1, Rows DEF Sound
<1>4. ASSUME NEW s, NEW a, NEW b, s = <<a, b>>,
             \/ a = Do("siggen_stop") /\ \E x \in Units \X Lengths : b = Call("siggen_start", x)
             \/ a = Do("settle") /\ \E h \in Halves : b = Call("half", h)
      PROVE  Clean(s, g)
  <2>1. s \in Seq({a, b}) /\ Len(s) = 2 /\ s[1] = a /\ s[2] = b
    BY <1>4
  <2>2. /\ a[1] \in {"siggen_stop", "settle"} /\ a[3] = 0 /\ a[4] = <<>>
        /\ b[3] = 0 /\ b[4] = <<>>
        /\ \/ b[1] = "siggen_start" /\ a = Do("siggen_stop") /\ b[2] \in Units \X Lengths
           \/ b[1] = "half" /\ b[2] \in Halves
    BY <1>4 DEF Do, Call, OrElse
  <2>3. ASSUME NEW i \in 1 .. Len(s) PROVE Fits(s, i, g) /\ Arms(s, i)
    <3>1. i \in {1, 2}
      BY <2>1
    <3>2. CASE i = 1
      BY <2>1, <2>2, <3>2, FallsBack DEF Fits, Arms, GenCalls
    <3>3. CASE i = 2
      BY <2>1, <2>2, <3>3, FallsBack DEF Fits, Arms, GenCalls
    <3> QED
      BY <3>1, <3>2, <3>3
  <2>4. IsSequence(s)
    BY <2>1 DEF IsSequence
  <2> QED
    BY <2>3, <2>4 DEF Clean
<1>5. ASSUME NEW u \in Units, NEW n \in Lengths
      PROVE  Clean(<<Do("siggen_stop"), Call("siggen_start", <<u, n>>)>>, g)
  <2>1. <<u, n>> \in Units \X Lengths
    OBVIOUS
  <2> QED
    BY <1>4, <2>1
<1>6. ASSUME NEW h \in Halves PROVE Clean(<<Do("settle"), Call("half", h)>>, g)
  BY <1>4, <1>6
<1> QED
  BY <1>2, <1>3, <1>5, <1>6

LEMMA CalmCommand ==
  ASSUME Typed, Windows, Calm, Command PROVE SessionInv'
<1>1. \E p : Type(p) /\ Clean(p, gen)
  <2>1. CASE DacOn \/ DacOff
    BY <2>1, DacCommands DEF DacOn, DacOff
  <2>2. CASE ~(DacOn \/ DacOff)
    BY <2>2, OtherCommands DEF Command, SiggenOn, SiggenOff, StreamOn, StreamOnInput, StreamOff,
                               StreamGrab, Buf
  <2> QED
    BY <2>1, <2>2
<1>2. UNCHANGED <<board, table, soft>> /\ Clean(todo', gen)
  BY <1>1 DEF Type, Begin
<1> QED
  BY <1>2, CalmStill DEF Still, Calm, Typed, soft, board

(* The driver calls outside a start and a stop of the generator. *)
LEMMA CalmDriver ==
  ASSUME Typed, Windows, Calm, DriverCall, UNCHANGED soft PROVE SessionInv'
<1>1. CASE OtherDriver
  BY <1>1, CalmOther
<1>2. CASE clock_dac_on \/ dac_enable \/ dac_unit_off \/ dac_light_off
  BY <1>2, CalmDac
<1>3. CASE window_write \/ dma_off_if_idle \/ dma0_stop \/ dma0_window \/ dma0_enable
  BY <1>3, CalmDma
<1>4. CASE \/ dma2_stop \/ dma2_window \/ dma2_enable \/ dma2_window_back
           \/ sccp2_start \/ sccp2_stop
  <2>1. \E f \in GenCalls : Now(f)
    BY <1>4 DEF dma2_stop, dma2_window, dma2_enable, dma2_window_back, sccp2_start, sccp2_stop,
                GenCalls
  <2>2. todo # <<>>
    BY <2>1 DEF Now
  <2>3. Fits(todo, 1, gen) /\ \A f : Now(f) <=> todo[1][1] = f
    BY <2>2, AtHead DEF Calm
  <2> QED
    BY <2>1, <2>3 DEF Fits
<1> QED
  BY <1>1, <1>2, <1>3, <1>4 DEF DriverCall, OtherDriver

LEMMA CalmStep ==
  ASSUME Typed, Windows, Calm, SessionNext PROVE SessionInv'
<1>1. CASE Command
  BY <1>1, CalmCommand
<1>2. CASE SessionCall
  BY <1>2, CalmCapture, CalmAcquisition, CalmStop, CalmStart DEF SessionCall
<1>3. CASE DriverCall /\ UNCHANGED soft
  BY <1>3, CalmDriver
<1>4. CASE Brake
  BY <1>4, BrakeStep DEF SessionInv
<1> QED
  BY <1>1, <1>2, <1>3, <1>4 DEF SessionNext
----------------------------------------------------------------------------
LEMMA SessionInitial == SessionInit => SessionInv
<1> SUFFICES ASSUME SessionInit PROVE SessionInv
  OBVIOUS
<1>1. MaxHalf \in Halves
  BY BoardAssumption DEF MaxHalf
<1>2. MaxHalf \in Nat \ {0} /\ BufFirst \in Nat \ {0}
  BY <1>1, BoardAssumption
<1> DEFINE b == <<BufFirst, BufFirst + 2 * MaxHalf - 1>>
<1>3. b \in Spans /\ None \in Spans
  <2>1. BufFirst + 2 * MaxHalf - 1 \in Nat
    BY <1>2
  <2> QED
    BY <1>2, <2>1 DEF Spans, None
<1>4. /\ todo = <<>> /\ gen = 0 /\ claim = 0 /\ table \in Tables
      /\ dac = [u \in Units |-> "off"]
      /\ "dac" \in DOMAIN clk
      /\ "two" \in DOMAIN sccp /\ ~sccp.two
      /\ "half" \in DOMAIN cap /\ cap.half = MaxHalf
  BY DEF SessionInit
<1>5. /\ {"on", "window", "win0", "win1", "ch0", "pair", "range0", "ch2", "range2", "to"}
           \subseteq DOMAIN dma
      /\ ~dma.ch0 /\ ~dma.ch2 /\ dma.window = b /\ dma.win0 = b /\ dma.win1 = None
  BY DEF SessionInit
<1> HIDE DEF b
<1>6. Typed
  BY <1>1, <1>4, <1>5 DEF Typed
<1>7. Windows
  BY <1>3, <1>5 DEF Windows
<1>8. Silent
  BY <1>4, <1>5 DEF Silent, Idle
<1>9. Ready(<<>>, 0, dma)
  BY Parts, CleanReady DEF Sound
<1> QED
  BY <1>4, <1>6, <1>7, <1>8, <1>9 DEF SessionInv, Calm

(* The invariant holds of every state of every run. *)
THEOREM SessionInvariant == SessionSpec => []SessionInv
<1>1. SessionInv /\ [SessionNext]_vars => SessionInv'
  <2> SUFFICES ASSUME SessionInv, [SessionNext]_vars PROVE SessionInv'
    OBVIOUS
  <2>1. CASE UNCHANGED vars
    BY <2>1, SessionStutter
  <2>2. CASE SessionNext
    BY <2>2, CalmStep, UnwindingStep, LeavingStep, StartingStep DEF SessionInv
  <2> QED
    BY <2>1, <2>2
<1> QED
  BY <1>1, SessionInitial, PTL DEF SessionSpec

(* Every DMA channel that is on moves data inside the one address window,  *)
(* whichever of the stream and the generator came, changed length or went  *)
(* last (dma.c, window_write()).                                           *)
THEOREM WindowAlwaysCovers == SessionSpec => []WindowCovers
<1>1. SessionInv => WindowCovers
  BY DEF SessionInv, Windows, WindowCovers
<1> QED
  BY <1>1, SessionInvariant, PTL

(* No command and no failure takes the output from under a generator that  *)
(* plays: its DAC stays in level mode, the DAC clock and the DMA stay on.  *)
THEOREM OutputStaysWithGenerator == SessionSpec => []DrivenDacStill
<1>1. SessionInv => DrivenDacStill
  BY DEF SessionInv, Calm, Playing, Silent, Idle, Unwinding, Leaving, Starting, Runs, Level,
         DrivenDacStill
<1> QED
  BY <1>1, SessionInvariant, PTL

(* Between two commands the generator is all there or not at all, wherever *)
(* its last start failed (siggen.c, siggen_start() and siggen_stop()).     *)
THEOREM GeneratorAllOrNothing == SessionSpec => []GeneratorWhole
<1>1. SessionInv => GeneratorWhole
  <2> SUFFICES ASSUME SessionInv, Rest PROVE Playing \/ Silent
    BY DEF GeneratorWhole, Playing, Silent, Idle, Runs, Level, Units
  <2>1. \A c, t : IsSequence(t) => todo # Push(c, t)
    BY Pushed DEF Rest
  <2>2. \A r : IsSequence(r) => /\ IsSequence(Gone1(r)) /\ IsSequence(Gone0(r))
                                /\ IsSequence(Dark1(Gone0(r)))
    <3> SUFFICES ASSUME NEW r, IsSequence(r)
                 PROVE  /\ IsSequence(Gone1(r)) /\ IsSequence(Gone0(r))
                        /\ IsSequence(Dark1(Gone0(r)))
      OBVIOUS
    <3> QED
      BY StopCalls
  <2>3. ~Unwinding
    <3> SUFFICES ASSUME NEW t, IsSequence(t), todo \in {Off0(t), Off1(t), Off2(t), Off3(t), Shrink(t)}
                 PROVE  FALSE
      BY DEF Unwinding
    <3>1. IsSequence(Off3(t)) /\ IsSequence(Off2(t)) /\ IsSequence(Off1(t))
      BY Pushed DEF Off3, Off2, Off1
    <3> QED
      BY <2>1, <3>1 DEF Off0, Off1, Off2, Off3, Shrink
  <2>4. ~Leaving
    <3> SUFFICES ASSUME NEW u, NEW r, Clean(r, 0),
                        todo \in {Dark0(u, Gone0(r)), Dark1(Gone0(r)), Gone0(r), Gone1(r)}
                 PROVE  FALSE
      BY DEF Leaving
    <3>1. IsSequence(r)
      BY DEF Clean
    <3> QED
      BY <2>1, <2>2, <3>1 DEF Dark0, Dark1, Gone0, Gone1
  <2>5. ~Starting
    <3> SUFFICES ASSUME NEW u, NEW r,
                        todo \in {On0(u, r), On1(u, r), On2(u, r), On3(u, r), On4(u, r), On5(u, r),
                                  On6(u, r), On7(u), On8(u), On9(u)}
                 PROVE  FALSE
      BY DEF Starting
    <3>1. IsSequence(<<>>)
      <4>1. <<>> \in Seq({})
        OBVIOUS
      <4> QED
        BY <4>1 DEF IsSequence
    <3>2. /\ IsSequence(On9(u)) /\ IsSequence(On8(u)) /\ IsSequence(On7(u)) /\ IsSequence(On6(u, r))
          /\ IsSequence(On5(u, r)) /\ IsSequence(On4(u, r)) /\ IsSequence(On3(u, r))
          /\ IsSequence(On2(u, r)) /\ IsSequence(On1(u, r))
      BY <3>1, Pushed DEF On9, On8, On7, On6, On5, On4, On3, On2, On1
    <3> QED
      BY <2>1, <3>1, <3>2 DEF On0, On1, On2, On3, On4, On5, On6, On7, On8, On9
  <2> QED
    BY <2>3, <2>4, <2>5 DEF SessionInv, Calm
<1> QED
  BY <1>1, SessionInvariant, PTL

----------------------------------------------------------------------------
(* What can be known:                                                      *)
Facts == {"none", "ok", "pll", "trig", "signal", "input", "at_chain", "at_input", "single",
          "irqsel", "on", "quiet", "was", "halted", "mode", "chain", "one", "armed", "pairs"}
(* of the stream, its set-up and its route;                                *)
KnownSetup(x) ==
  /\ "none" \in x => ~stream
  /\ "ok" \in x => ok
  /\ "pll" \in x => (ok => clk.pll = "chain")
  /\ "trig" \in x => (ok => clk.trig = "on")
  /\ "signal" \in x => route = "signal"
  /\ "input" \in x => route = "input"
(* of the converter;                                                       *)
KnownAdc(x) ==
  /\ "at_chain" \in x => adc.core = "chain"
  /\ "at_input" \in x => adc.core = "input"
  /\ "single" \in x => adc.mode = "single" /\ adc.trg1 = "sccp1"
  /\ "irqsel" \in x => adc.irqsel = 0
  /\ "on" \in x => adc.on = "on"
(* of the capture, which the brake may stop at any time once it runs.      *)
KnownCapture(x) ==
  /\ "quiet" \in x => ~cap.busy
  /\ "was" \in x => ~cap.was
  /\ "halted" \in x => ~cap.run
  /\ "mode" \in x => cap.chain
  /\ "chain" \in x => (cap.run => cap.chain)
  /\ "one" \in x => (cap.run => sccp.one)
  /\ "armed" \in x => ~cap.run /\ dma.on /\ dma.ch0 /\ dma.pair
  /\ "pairs" \in x => /\ cap.run => dma.on /\ dma.ch0 /\ dma.pair
                      /\ ~cap.run => ~dma.ch0
Known(x) == KnownSetup(x) /\ KnownAdc(x) /\ KnownCapture(x)

(* Enough between two commands.                                            *)
Enough(x) ==
  \/ "none" \in x
  \/ /\ {"ok", "pll", "trig", "single", "irqsel", "on", "quiet", "chain", "one", "pairs"} \subseteq x
     /\ {"signal", "at_chain"} \subseteq x \/ {"input", "at_input"} \subseteq x
(* What capture_chain_start() needs to bring the stream up.                *)
SetUp(x) ==
  /\ {"none", "ok", "pll", "trig", "single", "irqsel", "on", "quiet", "halted"} \subseteq x
  /\ {"signal", "at_chain"} \subseteq x \/ {"input", "at_input"} \subseteq x

If(p, s) == IF p THEN s ELSE {}
(* What is known after the call c, if x was known before it.               *)
SetupCalls   == {"ok", "route", "route_applied", "stream", "stream_off", "stream_on_route", "panic",
                 "clock_adc_set_pll", "clock_trig_on"}
AdcCalls     == {"adc_deinit", "adc_reinit", "core_down", "adc_init", "adc_set_mode_single",
                 "adc_set_mode_burst", "adc_set_mode_oversample", "adc_set_irqsel"}
CaptureCalls == {"chain", "run", "busy", "sccp1_start", "sccp1_stop", "dma_off_if_idle",
                 "dma0_stop", "dma0_enable", "settle", "capture_init", "capture_start", "restart"}
Touching     == SetupCalls \cup AdcCalls \cup CaptureCalls
OkSet(c, x) == IF c[2] = FALSE THEN (x \ {"ok"}) \cup {"pll", "trig"} ELSE x \ {"ok", "pll", "trig"}
RouteSet(c, x) == x \ {"signal", "input"}
RouteApplied(c, x) == (x \ {"signal", "input"}) \cup {"ok", c[2]}
StreamSet(c, x) == IF c[2] = FALSE THEN x \cup {"none"} ELSE x \ {"none"}
StreamDown(c, x) == {"none"}
PllSet(c, x) == (x \ {"pll"}) \cup If(c[2] = "chain" /\ c[4] = NotOk, {"pll"})
TrigOn(c, x) == (x \ {"trig"}) \cup If(c[2] = "on" /\ c[4] = NotOk, {"trig"})
AdcDown(c, x) == x \ {"on"}
AdcInit(c, x) == (x \ {"single", "at_chain", "at_input"}) \cup {"on", "irqsel"}
                   \cup If(c[2] = "chain", {"at_chain"}) \cup If(c[2] = "input", {"at_input"})
SingleSet(c, x) == (x \ {"single"}) \cup If(c[2] = "sccp1", {"single"})
ModeSet(c, x) == x \ {"single"}
IrqselSet(c, x) == (x \ {"irqsel"}) \cup If(c[2] = 0, {"irqsel"})
ChainSet(c, x) == (x \ {"mode", "chain"}) \cup If(c[2] = TRUE, {"mode", "chain"})
Running(c, x) == (x \ {"halted", "armed", "pairs", "one", "chain"})
                   \cup If("armed" \in x, {"pairs"}) \cup If("mode" \in x, {"chain"})
BusySet(c, x) == x \ {"quiet"}
TimerOn(c, x) == x \cup {"one"}
TimerOff(c, x) == x \ If("halted" \notin x, {"one"})
DmaIdle(c, x) == x \ ({"armed"} \cup If("halted" \notin x, {"pairs"}))
Dma0Stop(c, x) == (x \ {"armed", "pairs"}) \cup If("halted" \in x, {"pairs"})
Dma0On(c, x) == (x \ {"armed", "pairs"}) \cup If("halted" \in x /\ c[2][2] = TRUE, {"armed"})
SettleDone(c, x) == (x \ ({"armed", "mode", "was"} \cup If("quiet" \notin x, {"on"})))
                    \cup {"halted", "quiet", "chain", "one", "pairs"} \cup If("halted" \in x, {"was"})
InitDone(c, x) == (x \ {"armed", "pairs"}) \cup If({"halted", "mode"} \subseteq x, {"armed"})
BurstOn(c, x) == x \ {"halted", "quiet", "armed", "pairs", "one", "chain"}
BurstBack(c, x) == x \ If("was" \notin x, {"halted", "quiet", "armed", "pairs", "one", "chain"})
AfterSetup(c, x) ==
  CASE c[1] = "ok" -> OkSet(c, x)
    [] c[1] = "route" -> RouteSet(c, x)
    [] c[1] = "route_applied" -> RouteApplied(c, x)
    [] c[1] = "stream" -> StreamSet(c, x)
    [] c[1] \in {"stream_off", "stream_on_route", "panic"} -> StreamDown(c, x)
    [] c[1] = "clock_adc_set_pll" -> PllSet(c, x)
    [] c[1] = "clock_trig_on" -> TrigOn(c, x)
    [] OTHER -> x
AfterAdc(c, x) ==
  CASE c[1] \in {"adc_deinit", "adc_reinit", "core_down"} -> AdcDown(c, x)
    [] c[1] = "adc_init" -> AdcInit(c, x)
    [] c[1] = "adc_set_mode_single" -> SingleSet(c, x)
    [] c[1] \in {"adc_set_mode_burst", "adc_set_mode_oversample"} -> ModeSet(c, x)
    [] c[1] = "adc_set_irqsel" -> IrqselSet(c, x)
    [] OTHER -> x
AfterCapture(c, x) ==
  CASE c[1] = "chain" -> ChainSet(c, x)
    [] c[1] = "run" -> Running(c, x)
    [] c[1] = "busy" -> BusySet(c, x)
    [] c[1] = "sccp1_start" -> TimerOn(c, x)
    [] c[1] = "sccp1_stop" -> TimerOff(c, x)
    [] c[1] = "dma_off_if_idle" -> DmaIdle(c, x)
    [] c[1] = "dma0_stop" -> Dma0Stop(c, x)
    [] c[1] = "dma0_enable" -> Dma0On(c, x)
    [] c[1] = "settle" -> SettleDone(c, x)
    [] c[1] = "capture_init" -> InitDone(c, x)
    [] c[1] = "capture_start" -> BurstOn(c, x)
    [] c[1] = "restart" -> BurstBack(c, x)
    [] OTHER -> x
After(c, x) ==
  IF c[1] \in SetupCalls THEN AfterSetup(c, x)
  ELSE IF c[1] \in AdcCalls THEN AfterAdc(c, x)
  ELSE IF c[1] \in CaptureCalls THEN AfterCapture(c, x)
  ELSE x

(* When c may be made, whatever comes after it;                            *)
Untouching(s) == IsSequence(s) /\ \A i \in 1 .. Len(s) :
                   /\ s[i][1] \notin Touching \cup {"siggen_start"}
                   /\ s[i][3] = 0 /\ s[i][4] = <<>>
Lawful(c, x) ==
  /\ c[3] \in {0, 1, Everything}
  /\ c[3] # Everything => c[4] = <<>> \/ (c[4] = NotOk /\ "ok" \notin x)
  /\ c[3] = Everything => \/ c[4] = ChainUndone /\ "none" \in x
                          \/ /\ c[1] \notin Touching
                             /\ \/ c[4] = ChainStart /\ SetUp(x)
                                \/ Untouching(c[4]) /\ Enough(x)
  /\ c[1] = "route_applied" => "none" \in x /\ c[2] \in {"signal", "input"}
  /\ c[1] = "stream_on_route" => "none" \in x /\ c[2] \in {"signal", "input"}
  /\ c[1] = "siggen_start" => Enough(x)
  /\ c[1] = "run" => c[2] = TRUE
(* with what comes after it.                                               *)
Lawfully(s, i) ==
  /\ s[i][3] = 1 => i < Len(s) /\ s[i + 1][1] = "dac_enable"
  /\ s[i][1] = "stream_on_route" => i = Len(s)
Outline(s, w) ==
  /\ w \in [1 .. Len(s) + 1 -> SUBSET Facts]
  /\ \A i \in 1 .. Len(s) : /\ Lawful(s[i], w[i]) /\ Lawfully(s, i)
                            /\ w[i + 1] \subseteq After(s[i], w[i])
  /\ Enough(w[Len(s) + 1])
Leads(s, x) == IsSequence(s) /\ \E w : Outline(s, w) /\ w[1] \subseteq x

Shapes ==
  /\ {"pll", "trig"} \subseteq DOMAIN clk /\ "one" \in DOMAIN sccp
  /\ {"core", "mode", "trg1", "irqsel", "on"} \subseteq DOMAIN adc
  /\ {"run", "armed", "chain", "was", "busy"} \subseteq DOMAIN cap
  /\ {"on", "ch0", "pair"} \subseteq DOMAIN dma
OutlineInv == Shapes /\ \E x : Known(x) /\ Leads(todo, x)

----------------------------------------------------------------------------
(* The cases apart.                                                        *)
LEMMA AfterIs ==
  ASSUME NEW c, NEW x
  PROVE  /\ c[1] = "ok" => After(c, x) = OkSet(c, x)
         /\ c[1] = "route" => After(c, x) = RouteSet(c, x)
         /\ c[1] = "route_applied" => After(c, x) = RouteApplied(c, x)
         /\ c[1] = "stream" => After(c, x) = StreamSet(c, x)
         /\ c[1] \in {"stream_off", "stream_on_route", "panic"} => After(c, x) = StreamDown(c, x)
         /\ c[1] = "clock_adc_set_pll" => After(c, x) = PllSet(c, x)
         /\ c[1] = "clock_trig_on" => After(c, x) = TrigOn(c, x)
         /\ c[1] \in {"adc_deinit", "adc_reinit", "core_down"} => After(c, x) = AdcDown(c, x)
         /\ c[1] = "adc_init" => After(c, x) = AdcInit(c, x)
         /\ c[1] = "adc_set_mode_single" => After(c, x) = SingleSet(c, x)
         /\ c[1] \in {"adc_set_mode_burst", "adc_set_mode_oversample"} => After(c, x) = ModeSet(c, x)
         /\ c[1] = "adc_set_irqsel" => After(c, x) = IrqselSet(c, x)
         /\ c[1] = "chain" => After(c, x) = ChainSet(c, x)
         /\ c[1] = "run" => After(c, x) = Running(c, x)
         /\ c[1] = "busy" => After(c, x) = BusySet(c, x)
         /\ c[1] = "sccp1_start" => After(c, x) = TimerOn(c, x)
         /\ c[1] = "sccp1_stop" => After(c, x) = TimerOff(c, x)
         /\ c[1] = "dma_off_if_idle" => After(c, x) = DmaIdle(c, x)
         /\ c[1] = "dma0_stop" => After(c, x) = Dma0Stop(c, x)
         /\ c[1] = "dma0_enable" => After(c, x) = Dma0On(c, x)
         /\ c[1] = "settle" => After(c, x) = SettleDone(c, x)
         /\ c[1] = "capture_init" => After(c, x) = InitDone(c, x)
         /\ c[1] = "capture_start" => After(c, x) = BurstOn(c, x)
         /\ c[1] = "restart" => After(c, x) = BurstBack(c, x)
<1>1. /\ c[1] \in SetupCalls => After(c, x) = AfterSetup(c, x)
      /\ c[1] \in AdcCalls => After(c, x) = AfterAdc(c, x)
      /\ c[1] \in CaptureCalls => After(c, x) = AfterCapture(c, x)
  BY DEF After, AdcCalls, SetupCalls, CaptureCalls
<1>2. /\ c[1] = "ok" => AfterSetup(c, x) = OkSet(c, x)
      /\ c[1] = "route" => AfterSetup(c, x) = RouteSet(c, x)
      /\ c[1] = "route_applied" => AfterSetup(c, x) = RouteApplied(c, x)
      /\ c[1] = "stream" => AfterSetup(c, x) = StreamSet(c, x)
      /\ c[1] \in {"stream_off", "stream_on_route", "panic"} => AfterSetup(c, x) = StreamDown(c, x)
      /\ c[1] = "clock_adc_set_pll" => AfterSetup(c, x) = PllSet(c, x)
      /\ c[1] = "clock_trig_on" => AfterSetup(c, x) = TrigOn(c, x)
  BY DEF AfterSetup
<1>3. /\ c[1] \in {"adc_deinit", "adc_reinit", "core_down"} => AfterAdc(c, x) = AdcDown(c, x)
      /\ c[1] = "adc_init" => AfterAdc(c, x) = AdcInit(c, x)
      /\ c[1] = "adc_set_mode_single" => AfterAdc(c, x) = SingleSet(c, x)
      /\ c[1] \in {"adc_set_mode_burst", "adc_set_mode_oversample"} => AfterAdc(c, x) = ModeSet(c, x)
      /\ c[1] = "adc_set_irqsel" => AfterAdc(c, x) = IrqselSet(c, x)
  BY DEF AfterAdc
<1>4. /\ c[1] = "chain" => AfterCapture(c, x) = ChainSet(c, x)
      /\ c[1] = "run" => AfterCapture(c, x) = Running(c, x)
      /\ c[1] = "busy" => AfterCapture(c, x) = BusySet(c, x)
      /\ c[1] = "sccp1_start" => AfterCapture(c, x) = TimerOn(c, x)
      /\ c[1] = "sccp1_stop" => AfterCapture(c, x) = TimerOff(c, x)
      /\ c[1] = "dma_off_if_idle" => AfterCapture(c, x) = DmaIdle(c, x)
      /\ c[1] = "dma0_stop" => AfterCapture(c, x) = Dma0Stop(c, x)
      /\ c[1] = "dma0_enable" => AfterCapture(c, x) = Dma0On(c, x)
      /\ c[1] = "settle" => AfterCapture(c, x) = SettleDone(c, x)
      /\ c[1] = "capture_init" => AfterCapture(c, x) = InitDone(c, x)
      /\ c[1] = "capture_start" => AfterCapture(c, x) = BurstOn(c, x)
      /\ c[1] = "restart" => AfterCapture(c, x) = BurstBack(c, x)
  BY DEF AfterCapture
<1>5. /\ \A f \in {"ok", "route", "route_applied", "stream", "stream_off", "stream_on_route",
             "panic", "clock_adc_set_pll", "clock_trig_on"} : f \in SetupCalls
      /\ \A f \in {"adc_deinit", "adc_reinit", "core_down", "adc_init", "adc_set_mode_single",
              "adc_set_mode_burst", "adc_set_mode_oversample",
              "adc_set_irqsel"} : f \in AdcCalls
      /\ \A f \in {"chain", "run", "busy", "sccp1_start", "sccp1_stop", "dma_off_if_idle",
              "dma0_stop", "dma0_enable", "settle", "capture_init", "capture_start",
              "restart"} : f \in CaptureCalls
  BY DEF SetupCalls, AdcCalls, CaptureCalls
<1> QED
  BY <1>1, <1>2, <1>3, <1>4, <1>5

LEMMA AfterElse == ASSUME NEW c, NEW x, c[1] \notin Touching PROVE After(c, x) = x
  BY DEF After, Touching

(* A lawful call leaves known what can be known.                           *)
LEMMA AfterKnown ==
  ASSUME NEW c, NEW x \in SUBSET Facts, Lawful(c, x) PROVE After(c, x) \in SUBSET Facts
<1>1. AfterCapture(c, x) \in SUBSET Facts
  BY DEF AfterCapture, Facts, If,
         ChainSet, Running, BusySet, TimerOn, TimerOff, DmaIdle, Dma0Stop, Dma0On, SettleDone,
         InitDone, BurstOn, BurstBack
<1>2. AfterAdc(c, x) \in SUBSET Facts
  BY DEF AfterAdc, Facts, If, AdcDown, AdcInit, SingleSet, ModeSet, IrqselSet
<1>3. AfterSetup(c, x) \in SUBSET Facts
  <2>1. c[1] = "route_applied" => c[2] \in {"signal", "input"}
    BY DEF Lawful
  <2> QED
    BY <2>1 DEF AfterSetup, Facts, If,
              OkSet, RouteSet, RouteApplied, StreamSet, StreamDown, PllSet, TrigOn
<1> QED
  BY <1>1, <1>2, <1>3 DEF After

----------------------------------------------------------------------------
LEMMA LeadsEmpty ==
  ASSUME NEW x PROVE /\ Leads(<<>>, x) => Enough(x)
                     /\ x \in SUBSET Facts /\ Enough(x) => Leads(<<>>, x)
<1>1. Len(<<>>) = 0 /\ 1 .. 0 = {} /\ 0 + 1 = 1 /\ 1 .. 1 = {1} /\ <<>> \in Seq({})
  OBVIOUS
<1>2. ASSUME Leads(<<>>, x) PROVE Enough(x)
  <2>1. PICK w : Outline(<<>>, w) /\ w[1] \subseteq x
    BY <1>2 DEF Leads
  <2>2. Enough(w[1])
    BY <1>1, <2>1 DEF Outline
  <2> QED
    BY <2>1, <2>2 DEF Enough
<1>3. ASSUME x \in SUBSET Facts, Enough(x) PROVE Leads(<<>>, x)
  <2> DEFINE w == [i \in {1} |-> x]
  <2>1. w \in [{1} -> SUBSET Facts] /\ w[1] = x
    BY <1>3
  <2> HIDE DEF w
  <2>2. Outline(<<>>, w)
    BY <1>1, <1>3, <2>1 DEF Outline
  <2> QED
    BY <1>1, <2>1, <2>2 DEF Leads, IsSequence
<1> QED
  BY <1>2, <1>3

LEMMA LeadsMore ==
  ASSUME NEW s, NEW x, NEW y, Leads(s, x), x \subseteq y PROVE Leads(s, y)
<1>1. PICK w : Outline(s, w) /\ w[1] \subseteq x
  BY DEF Leads
<1>2. w[1] \subseteq y
  BY <1>1
<1> QED
  BY <1>1, <1>2 DEF Leads

(* A lawful call before calls that lead on from what is known after it.    *)
LEMMA LeadsPush ==
  ASSUME NEW c, NEW t, NEW x \in SUBSET Facts, Lawful(c, x), Leads(t, After(c, x)),
         c[3] = 1 => t # <<>> /\ Head(t)[1] = "dac_enable",
         c[1] = "stream_on_route" => t = <<>>
  PROVE  Leads(Push(c, t), x)
<1>1. PICK v : Outline(t, v) /\ v[1] \subseteq After(c, x)
  BY DEF Leads
<1>2. IsSequence(t)
  BY DEF Leads
<1> DEFINE s == Push(c, t)
           n == Len(t)
           w == [i \in 1 .. n + 2 |-> IF i = 1 THEN x ELSE v[i - 1]]
<1>3. /\ IsSequence(s) /\ n \in Nat /\ Len(s) = n + 1 /\ s[1] = c
      /\ \A i \in 1 .. n : s[1 + i] = t[i]
      /\ t = <<>> <=> n = 0
  <2>1. IsSequence(<<c>>) /\ Len(<<c>>) = 1 /\ <<c>>[1] = c
    <3>1. <<c>> \in Seq({c})
      OBVIOUS
    <3> QED
      BY <3>1 DEF IsSequence
  <2> DEFINE e == <<c>>
  <2>2. s = e \o t
    BY DEF Push
  <2> HIDE DEF e, s, n
  <2>3. /\ IsSequence(e \o t)
        /\ Len(e) \in Nat /\ Len(t) \in Nat
        /\ Len(e \o t) = Len(e) + Len(t)
        /\ \A i \in 1 .. Len(e) : (e \o t)[i] = e[i]
        /\ \A i \in 1 .. Len(t) : (e \o t)[Len(e) + i] = t[i]
        /\ t = <<>> <=> Len(t) = 0
    <3>1. IsSequence(e)
      BY <2>1 DEF e
    <3> QED
      BY <1>2, <3>1, Joining
  <2>4. IsSequence(e) /\ Len(e) = 1 /\ e[1] = c /\ 1 \in 1 .. 1
    BY <2>1 DEF e
  <2> QED
    BY <2>2, <2>3, <2>4 DEF n
<1> HIDE DEF s
<1>4. /\ v \in [1 .. n + 1 -> SUBSET Facts]
      /\ \A i \in 1 .. n : /\ Lawful(t[i], v[i]) /\ Lawfully(t, i)
                           /\ v[i + 1] \subseteq After(t[i], v[i])
      /\ Enough(v[n + 1])
  BY <1>1 DEF Outline
<1> HIDE DEF n
<1>5. /\ w \in [1 .. n + 2 -> SUBSET Facts] /\ w[1] = x
      /\ \A i \in 1 .. n + 1 : w[i + 1] = v[i]
  <2>1. \A i \in 1 .. n + 2 : i # 1 => i - 1 \in 1 .. n + 1
    BY <1>3
  <2>2. \A i \in 1 .. n + 1 : i + 1 \in 1 .. n + 2 /\ i + 1 # 1 /\ (i + 1) - 1 = i
    BY <1>3
  <2>3. 1 \in 1 .. n + 2
    BY <1>3
  <2> QED
    BY <1>4, <2>1, <2>2, <2>3
<1> HIDE DEF w
<1>6. ASSUME NEW i \in 1 .. Len(s)
      PROVE  Lawful(s[i], w[i]) /\ Lawfully(s, i) /\ w[i + 1] \subseteq After(s[i], w[i])
  <2>1. CASE i = 1
    <3>1. w[2] = v[1]
      <4>1. 1 \in 1 .. n + 1 /\ 1 + 1 = 2
        BY <1>3
      <4> QED
        BY <1>5, <4>1
    <3>2. t # <<>> => s[2] = t[1] /\ Head(t) = t[1] /\ 1 < Len(s)
      <4>1. t # <<>> => 1 \in 1 .. n /\ 1 + 1 = 2 /\ 1 < n + 1
        BY <1>3
      <4>2. PICK S : t \in Seq(S)
        BY <1>2 DEF IsSequence
      <4>3. t # <<>> => Head(t) = t[1]
        BY <4>2
      <4> QED
        BY <1>3, <4>1, <4>3
    <3>3. t = <<>> => Len(s) = 1
      BY <1>3
    <3>4. Lawfully(s, 1)
      BY <1>3, <3>2, <3>3 DEF Lawfully
    <3> QED
      BY <1>1, <1>3, <1>5, <2>1, <3>1, <3>4
  <2>2. CASE i # 1
    <3> DEFINE j == i - 1
    <3>1. /\ j \in 1 .. n /\ j \in 1 .. n + 1 /\ i = 1 + j /\ i = j + 1 /\ j + 1 \in 1 .. n + 1
          /\ j + 1 = i /\ i + 1 = (j + 1) + 1
          /\ j < n => j + 1 \in 1 .. n /\ i < Len(s) /\ i + 1 = 1 + (j + 1)
          /\ j = n => i = Len(s)
      BY <1>3, <2>2
    <3> HIDE DEF j
    <3>2. s[i] = t[j] /\ w[i] = v[j] /\ w[i + 1] = v[j + 1]
      BY <1>3, <1>5, <3>1
    <3>3. j < n => s[i + 1] = t[j + 1]
      BY <1>3, <3>1
    <3>4. Lawful(t[j], v[j]) /\ Lawfully(t, j) /\ v[j + 1] \subseteq After(t[j], v[j])
      BY <1>4, <3>1
    <3>5. Lawfully(s, i)
      BY <3>1, <3>2, <3>3, <3>4 DEF Lawfully, n
    <3> QED
      BY <3>2, <3>4, <3>5
  <2> QED
    BY <2>1, <2>2
<1>7. Outline(s, w)
  <2>1. Len(s) + 1 = n + 2 /\ w[Len(s) + 1] = v[n + 1]
    <3>1. Len(s) + 1 = (n + 1) + 1 /\ n + 1 \in 1 .. n + 1 /\ (n + 1) + 1 = n + 2
      BY <1>3
    <3> QED
      BY <1>5, <3>1
  <2> QED
    BY <1>4, <1>5, <1>6, <2>1 DEF Outline
<1> QED
  BY <1>3, <1>5, <1>7 DEF Leads, s

(* What an outline says of the next call and of the calls after it.        *)
LEMMA LeadsPop ==
  ASSUME NEW s, NEW x, Leads(s, x), s # <<>>
  PROVE  \E y \in SUBSET Facts :
           /\ y \subseteq x /\ Lawful(Head(s), y) /\ Lawfully(s, 1)
           /\ Leads(Tail(s), After(Head(s), y))
<1>1. PICK w : Outline(s, w) /\ w[1] \subseteq x
  BY DEF Leads
<1>2. PICK S : s \in Seq(S)
  BY DEF Leads, IsSequence
<1> DEFINE t == Tail(s)
           n == Len(t)
           v == [i \in 1 .. n + 1 |-> w[i + 1]]
<1>3. /\ t \in Seq(S) /\ n \in Nat /\ Len(s) = n + 1 /\ Head(s) = s[1]
      /\ \A i \in 1 .. n : t[i] = s[i + 1]
  BY <1>2
<1> HIDE DEF t, n
<1>4. /\ w \in [1 .. Len(s) + 1 -> SUBSET Facts]
      /\ \A i \in 1 .. Len(s) : /\ Lawful(s[i], w[i]) /\ Lawfully(s, i)
                                /\ w[i + 1] \subseteq After(s[i], w[i])
      /\ Enough(w[Len(s) + 1])
  BY <1>1 DEF Outline
<1>5. /\ 1 \in 1 .. Len(s) /\ 1 \in 1 .. Len(s) + 1 /\ 1 + 1 = 2 /\ 1 \in 1 .. n + 1
      /\ \A i \in 1 .. n + 1 : i + 1 \in 1 .. Len(s) + 1
      /\ \A i \in 1 .. n : i + 1 \in 1 .. Len(s) /\ i \in 1 .. n + 1 /\ i + 1 \in 1 .. n + 1
      /\ n + 1 \in 1 .. n + 1 /\ Len(s) + 1 = (n + 1) + 1
  BY <1>3
<1>6. v \in [1 .. n + 1 -> SUBSET Facts] /\ \A i \in 1 .. n + 1 : v[i] = w[i + 1]
  BY <1>4, <1>5
<1> HIDE DEF v
<1>7. ASSUME NEW i \in 1 .. n
      PROVE  Lawful(t[i], v[i]) /\ Lawfully(t, i) /\ v[i + 1] \subseteq After(t[i], v[i])
  <2>1. t[i] = s[i + 1] /\ v[i] = w[i + 1] /\ v[i + 1] = w[(i + 1) + 1]
    BY <1>3, <1>5, <1>6
  <2>2. Lawful(s[i + 1], w[i + 1]) /\ Lawfully(s, i + 1)
        /\ w[(i + 1) + 1] \subseteq After(s[i + 1], w[i + 1])
    BY <1>4, <1>5
  <2>3. Lawfully(t, i)
    <3>1. /\ i + 1 < Len(s) => i < n /\ i + 1 \in 1 .. n
          /\ i + 1 = Len(s) => i = n
      BY <1>3
    <3>2. i + 1 < Len(s) => t[i + 1] = s[(i + 1) + 1]
      BY <1>3, <3>1
    <3> QED
      BY <2>1, <2>2, <3>1, <3>2 DEF Lawfully, n
  <2> QED
    BY <2>1, <2>2, <2>3
<1>8. Outline(t, v)
  <2>1. Enough(v[n + 1])
    BY <1>4, <1>5, <1>6
  <2> QED
    BY <1>6, <1>7, <2>1 DEF Outline, n
<1>9. v[1] \subseteq After(Head(s), w[1]) /\ w[1] \in SUBSET Facts /\ Lawful(Head(s), w[1]) /\ Lawfully(s, 1)
  <2>1. v[1] = w[2]
    BY <1>5, <1>6
  <2> QED
    BY <1>3, <1>4, <1>5, <2>1
<1>10. Leads(t, After(Head(s), w[1]))
  BY <1>3, <1>8, <1>9 DEF Leads, IsSequence
<1> QED
  BY <1>1, <1>9, <1>10 DEF t

(* Calls that lead from what x knows to what y knows.                      *)
Carries(s, x, y) == IsSequence(s) /\ \A t : Leads(t, y) => Leads(s \o t, x)

LEMMA CarryJoin ==
  ASSUME NEW s, NEW t, NEW x, NEW y, NEW z, Carries(s, x, y), Carries(t, y, z)
  PROVE  Carries(s \o t, x, z)
<1>1. IsSequence(s) /\ IsSequence(t) /\ IsSequence(s \o t)
  BY Joining DEF Carries
<1>2. ASSUME NEW u, Leads(u, z) PROVE Leads((s \o t) \o u, x)
  <2>1. IsSequence(u)
    BY <1>2 DEF Leads
  <2>2. (s \o t) \o u = s \o (t \o u)
    BY <1>1, <2>1, Assoc
  <2>3. Leads(s \o (t \o u), x)
    BY <1>2 DEF Carries
  <2> QED
    BY <2>2, <2>3
<1> QED
  BY <1>1, <1>2 DEF Carries

LEMMA CarryNone ==
  ASSUME NEW x, NEW y, y \subseteq x PROVE Carries(<<>>, x, y)
<1>1. IsSequence(<<>>)
  <2>1. <<>> \in Seq({})
    OBVIOUS
  <2> QED
    BY <2>1 DEF IsSequence
<1>2. ASSUME NEW t, Leads(t, y) PROVE Leads(<<>> \o t, x)
  <2>1. IsSequence(t)
    BY <1>2 DEF Leads
  <2>2. <<>> \o t = t
    BY <1>1, <2>1, Assoc
  <2> QED
    BY <1>2, <2>2, LeadsMore
<1> QED
  BY <1>1, <1>2 DEF Carries

LEMMA CarryOne ==
  ASSUME NEW c, NEW x \in SUBSET Facts, NEW y, Lawful(c, x), c[3] # 1, c[1] # "stream_on_route",
         y \subseteq After(c, x)
  PROVE  Carries(<<c>>, x, y)
<1>1. IsSequence(<<c>>)
  <2>1. <<c>> \in Seq({c})
    OBVIOUS
  <2> QED
    BY <2>1 DEF IsSequence
<1>2. ASSUME NEW t, Leads(t, y) PROVE Leads(<<c>> \o t, x)
  <2>1. Leads(t, After(c, x))
    BY <1>2, LeadsMore
  <2> QED
    BY <2>1, LeadsPush DEF Push
<1> QED
  BY <1>1, <1>2 DEF Carries

(* Two to five calls are one after the other.                              *)
LEMMA InRow2 ==
  ASSUME NEW a, NEW b PROVE <<a, b>> = <<a>> \o <<b>>
<1> DEFINE S == {a, b}
           m == <<a, b>>
           s == <<a>>
<1>1. /\ m \in Seq(S) /\ s \in Seq(S) /\ Len(m) = 2 /\ Len(s) = 1 /\ b \in S /\ m[2] = b
      /\ m[1] = s[1]
  OBVIOUS
<1> HIDE DEF m, s, S
<1>2. Len(m) = Len(s) + 1 /\ m[Len(s) + 1] = b /\ \A i \in 1 .. Len(s) : m[i] = s[i]
  BY <1>1
<1>3. m = s \o <<b>>
  BY <1>1, <1>2, Grown
<1> QED
  BY <1>3 DEF m, s

LEMMA InRow3 ==
  ASSUME NEW a, NEW b, NEW c PROVE <<a, b, c>> = <<a, b>> \o <<c>>
<1> DEFINE S == {a, b, c}
           m == <<a, b, c>>
           s == <<a, b>>
<1>1. /\ m \in Seq(S) /\ s \in Seq(S) /\ Len(m) = 3 /\ Len(s) = 2 /\ c \in S /\ m[3] = c
      /\ m[1] = s[1] /\ m[2] = s[2]
  OBVIOUS
<1> HIDE DEF m, s, S
<1>2. Len(m) = Len(s) + 1 /\ m[Len(s) + 1] = c /\ \A i \in 1 .. Len(s) : m[i] = s[i]
  BY <1>1
<1>3. m = s \o <<c>>
  BY <1>1, <1>2, Grown
<1> QED
  BY <1>3 DEF m, s

LEMMA InRow4 ==
  ASSUME NEW a, NEW b, NEW c, NEW d PROVE <<a, b, c, d>> = <<a, b, c>> \o <<d>>
<1> DEFINE S == {a, b, c, d}
           m == <<a, b, c, d>>
           s == <<a, b, c>>
<1>1. /\ m \in Seq(S) /\ s \in Seq(S) /\ Len(m) = 4 /\ Len(s) = 3 /\ d \in S /\ m[4] = d
      /\ m[1] = s[1] /\ m[2] = s[2] /\ m[3] = s[3]
  OBVIOUS
<1> HIDE DEF m, s, S
<1>2. Len(m) = Len(s) + 1 /\ m[Len(s) + 1] = d /\ \A i \in 1 .. Len(s) : m[i] = s[i]
  BY <1>1
<1>3. m = s \o <<d>>
  BY <1>1, <1>2, Grown
<1> QED
  BY <1>3 DEF m, s

LEMMA InRow5 ==
  ASSUME NEW a, NEW b, NEW c, NEW d, NEW e PROVE <<a, b, c, d, e>> = <<a, b, c, d>> \o <<e>>
<1> DEFINE S == {a, b, c, d, e}
           m == <<a, b, c, d, e>>
           s == <<a, b, c, d>>
<1>1. /\ m \in Seq(S) /\ s \in Seq(S) /\ Len(m) = 5 /\ Len(s) = 4 /\ e \in S /\ m[5] = e
      /\ m[1] = s[1] /\ m[2] = s[2] /\ m[3] = s[3] /\ m[4] = s[4]
  OBVIOUS
<1> HIDE DEF m, s, S
<1>2. Len(m) = Len(s) + 1 /\ m[Len(s) + 1] = e /\ \A i \in 1 .. Len(s) : m[i] = s[i]
  BY <1>1
<1>3. m = s \o <<e>>
  BY <1>1, <1>2, Grown
<1> QED
  BY <1>3 DEF m, s

LEMMA Carry2 ==
  ASSUME NEW a, NEW b, NEW x0, NEW x1, NEW x2, Carries(<<a>>, x0, x1), Carries(<<b>>, x1, x2)
  PROVE  Carries(<<a, b>>, x0, x2)
<1>1. <<a, b>> = <<a>> \o <<b>>
  BY InRow2
<1> QED
  BY <1>1, CarryJoin
LEMMA Carry3 ==
  ASSUME NEW a, NEW b, NEW c, NEW x0, NEW x1, NEW x2, NEW x3,
         Carries(<<a>>, x0, x1), Carries(<<b>>, x1, x2), Carries(<<c>>, x2, x3)
  PROVE  Carries(<<a, b, c>>, x0, x3)
<1> DEFINE s == <<a, b>>
           t == <<c>>
<1>1. <<a, b, c>> = s \o t
  BY InRow3
<1>2. Carries(s, x0, x2) /\ Carries(t, x2, x3)
  BY Carry2
<1> HIDE DEF s, t
<1>3. Carries(s \o t, x0, x3)
  BY <1>2, CarryJoin
<1> QED
  BY <1>1, <1>3
LEMMA Carry4 ==
  ASSUME NEW a, NEW b, NEW c, NEW d, NEW x0, NEW x1, NEW x2, NEW x3, NEW x4,
         Carries(<<a>>, x0, x1), Carries(<<b>>, x1, x2), Carries(<<c>>, x2, x3),
         Carries(<<d>>, x3, x4)
  PROVE  Carries(<<a, b, c, d>>, x0, x4)
<1> DEFINE s == <<a, b, c>>
           t == <<d>>
<1>1. <<a, b, c, d>> = s \o t
  BY InRow4
<1>2. Carries(s, x0, x3) /\ Carries(t, x3, x4)
  BY Carry3
<1> HIDE DEF s, t
<1>3. Carries(s \o t, x0, x4)
  BY <1>2, CarryJoin
<1> QED
  BY <1>1, <1>3
LEMMA Carry5 ==
  ASSUME NEW a, NEW b, NEW c, NEW d, NEW e, NEW x0, NEW x1, NEW x2, NEW x3, NEW x4, NEW x5,
         Carries(<<a>>, x0, x1), Carries(<<b>>, x1, x2), Carries(<<c>>, x2, x3),
         Carries(<<d>>, x3, x4), Carries(<<e>>, x4, x5)
  PROVE  Carries(<<a, b, c, d, e>>, x0, x5)
<1> DEFINE s == <<a, b, c, d>>
           t == <<e>>
<1>1. <<a, b, c, d, e>> = s \o t
  BY InRow5, ZenonT(60)
<1>2. Carries(s, x0, x4) /\ Carries(t, x4, x5)
  BY Carry4
<1> HIDE DEF s, t
<1>3. Carries(s \o t, x0, x5)
  BY <1>2, CarryJoin
<1> QED
  BY <1>1, <1>3

(* A DAC start whose failure skips only the DAC itself.                    *)
LEMMA CarryDac ==
  ASSUME NEW u, NEW as, NEW e \in {<<>>, NotOk}, NEW x \in SUBSET Facts, "ok" \notin x
  PROVE  Carries(dac_start(u, as, 1, e), x, x)
<1> DEFINE a == OrElse("clock_dac_on", 0, 1, e)
           b == Call("dac_enable", <<u, as>>)
<1>1. /\ a[1] = "clock_dac_on" /\ a[3] = 1 /\ a[4] \in {<<>>, NotOk}
      /\ b[1] = "dac_enable" /\ b[3] = 0 /\ b[4] = <<>>
  BY DEF OrElse, Call
<1>2. dac_start(u, as, 1, e) = <<a, b>>
  BY DEF dac_start
<1> HIDE DEF a, b
<1>3. Lawful(a, x) /\ Lawful(b, x) /\ After(a, x) = x /\ After(b, x) = x
  BY <1>1 DEF Lawful, After, SetupCalls, AdcCalls, CaptureCalls, Everything
<1>4. ASSUME NEW t, Leads(t, x) PROVE Leads(<<a, b>> \o t, x)
  <2>1. IsSequence(t)
    BY <1>4 DEF Leads
  <2>2. <<a, b>> \o t = Push(a, Push(b, t))
    BY <2>1, Chain2
  <2>3. Leads(Push(b, t), x)
    BY <1>1, <1>3, <1>4, LeadsPush
  <2>4. Push(b, t) # <<>> /\ Head(Push(b, t)) = b
    BY <2>1, Pushed
  <2>5. Leads(Push(a, Push(b, t)), x)
    BY <1>1, <1>3, <2>3, <2>4, LeadsPush
  <2> QED
    BY <2>2, <2>5
<1>5. IsSequence(<<a, b>>)
  <2>1. <<a, b>> \in Seq({a, b})
    OBVIOUS
  <2> QED
    BY <2>1 DEF IsSequence
<1> QED
  BY <1>2, <1>4, <1>5 DEF Carries

(* Calls before and after each of which x is known.                        *)
Keeps(c, x) ==
  Lawful(c, x) /\ c[3] # 1 /\ c[1] # "stream_on_route" /\ x \subseteq After(c, x)
LEMMA CarryKeeps ==
  ASSUME NEW s, IsSequence(s), NEW x \in SUBSET Facts, \A i \in 1 .. Len(s) : Keeps(s[i], x)
  PROVE  Carries(s, x, x)
<1> SUFFICES ASSUME NEW t, Leads(t, x) PROVE Leads(s \o t, x)
  BY DEF Carries
<1>1. PICK v : Outline(t, v) /\ v[1] \subseteq x
  BY DEF Leads
<1>2. IsSequence(t)
  BY DEF Leads
<1> DEFINE u == s \o t
           m == Len(s)
           n == Len(t)
           w == [i \in 1 .. m + n + 1 |-> IF i <= m THEN x ELSE v[i - m]]
<1>3. /\ IsSequence(u) /\ m \in Nat /\ n \in Nat /\ Len(u) = m + n
      /\ \A i \in 1 .. m : u[i] = s[i]
      /\ \A i \in 1 .. n : u[m + i] = t[i]
  BY <1>2, Joining
<1> HIDE DEF u
<1>4. /\ v \in [1 .. n + 1 -> SUBSET Facts]
      /\ \A i \in 1 .. n : /\ Lawful(t[i], v[i]) /\ Lawfully(t, i)
                           /\ v[i + 1] \subseteq After(t[i], v[i])
      /\ Enough(v[n + 1])
  BY <1>1 DEF Outline
<1> HIDE DEF m, n
<1>5. /\ w \in [1 .. m + n + 1 -> SUBSET Facts]
      /\ \A i \in 1 .. m : w[i] = x
      /\ \A i \in 1 .. n + 1 : w[m + i] = v[i]
  <2>1. \A i \in 1 .. m + n + 1 : ~(i <= m) => i - m \in 1 .. n + 1
    BY <1>3
  <2>2. \A i \in 1 .. n + 1 : m + i \in 1 .. m + n + 1 /\ ~(m + i <= m) /\ (m + i) - m = i
    BY <1>3
  <2>3. \A i \in 1 .. m : i \in 1 .. m + n + 1 /\ i <= m
    BY <1>3
  <2> QED
    BY <1>4, <2>1, <2>2, <2>3
<1> HIDE DEF w
<1>6. ASSUME NEW i \in 1 .. m + 1 PROVE w[i] \subseteq x
  <2>1. CASE i \in 1 .. m
    BY <1>5, <2>1
  <2>2. CASE i = m + 1
    <3>1. 1 \in 1 .. n + 1
      BY <1>3
    <3> QED
      BY <1>1, <1>5, <2>2, <3>1
  <2> QED
    BY <1>3, <2>1, <2>2
<1>7. ASSUME NEW i \in 1 .. m
      PROVE  Lawful(u[i], w[i]) /\ Lawfully(u, i) /\ w[i + 1] \subseteq After(u[i], w[i])
  <2>1. Keeps(s[i], x) /\ u[i] = s[i] /\ w[i] = x
    BY <1>3, <1>5 DEF m
  <2>2. i + 1 \in 1 .. m + 1
    BY <1>3
  <2> QED
    BY <1>6, <2>1, <2>2 DEF Keeps, Lawfully
<1>8. ASSUME NEW i \in 1 .. n
      PROVE  /\ Lawful(u[m + i], w[m + i]) /\ Lawfully(u, m + i)
             /\ w[(m + i) + 1] \subseteq After(u[m + i], w[m + i])
  <2>1. /\ i \in 1 .. n + 1 /\ i + 1 \in 1 .. n + 1 /\ (m + i) + 1 = m + (i + 1)
        /\ i < n => i + 1 \in 1 .. n /\ m + i < Len(u)
        /\ i = n => m + i = Len(u)
    BY <1>3
  <2>2. /\ u[m + i] = t[i] /\ w[m + i] = v[i] /\ w[(m + i) + 1] = v[i + 1]
        /\ i < n => u[(m + i) + 1] = t[i + 1]
    BY <1>3, <1>5, <2>1
  <2>3. Lawful(t[i], v[i]) /\ Lawfully(t, i) /\ v[i + 1] \subseteq After(t[i], v[i])
    BY <1>4
  <2>4. Lawfully(u, m + i)
    BY <2>1, <2>2, <2>3 DEF Lawfully, n
  <2> QED
    BY <2>2, <2>3, <2>4
<1>9. Outline(u, w)
  <2>1. ASSUME NEW i \in 1 .. Len(u)
        PROVE  Lawful(u[i], w[i]) /\ Lawfully(u, i) /\ w[i + 1] \subseteq After(u[i], w[i])
    <3>1. CASE i <= m
      BY <1>3, <1>7, <3>1
    <3>2. CASE ~(i <= m)
      <4>1. i - m \in 1 .. n /\ m + (i - m) = i
        BY <1>3, <3>2
      <4> DEFINE j == i - m
      <4> HIDE DEF j
      <4>2. j \in 1 .. n /\ m + j = i
        BY <4>1 DEF j
      <4> QED
        BY <1>8, <4>2
    <3> QED
      BY <3>1, <3>2
  <2>2. Len(u) + 1 = m + n + 1 /\ Len(u) + 1 = m + (n + 1) /\ n + 1 \in 1 .. n + 1
    BY <1>3
  <2>3. Enough(w[Len(u) + 1]) /\ w \in [1 .. Len(u) + 1 -> SUBSET Facts]
    BY <1>4, <1>5, <2>2
  <2> QED
    BY <2>1, <2>3 DEF Outline
<1>10. w[1] \subseteq x
  BY <1>3, <1>6
<1> QED
  BY <1>3, <1>9, <1>10 DEF Leads, u

(* Calls made whatever is known, and that no stream survives.              *)
Free        == {{}, {"none"}}
FreeName(f) == f \notin {"stream", "stream_on_route", "route_applied", "siggen_start", "run"}
FreeCall(c) == c[3] = 0 /\ c[4] = <<>> /\ FreeName(c[1])

LEMMA FreeIs == ASSUME NEW f, FreeName(f) PROVE FreeCall(Do(f)) /\ \A x : FreeCall(Call(f, x))
<1>1. ASSUME NEW x PROVE FreeCall(OrElse(f, x, 0, <<>>))
  BY DEF OrElse, FreeCall
<1> QED
  BY <1>1 DEF Do, Call

LEMMA FreeKeeps ==
  ASSUME NEW c, NEW x \in Free, FreeCall(c) PROVE Keeps(c, x) /\ x \in SUBSET Facts
<1>1. x = {} \/ x = {"none"}
  BY DEF Free
<1>2. "none" \in x => "none" \in After(c, x)
  BY DEF After, AfterSetup, AfterAdc, AfterCapture, SetupCalls, AdcCalls, CaptureCalls, If,
         FreeCall, FreeName, OkSet, RouteSet, RouteApplied, StreamSet, StreamDown, PllSet, TrigOn,
         AdcDown, AdcInit, SingleSet, ModeSet, IrqselSet,
         ChainSet, Running, BusySet, TimerOn, TimerOff, DmaIdle, Dma0Stop, Dma0On, SettleDone,
         InitDone, BurstOn, BurstBack
<1>3. Lawful(c, x)
  BY DEF Lawful, Everything, FreeCall, FreeName
<1> QED
  BY <1>1, <1>2, <1>3 DEF Keeps, Facts, FreeCall, FreeName

LEMMA FreeRows ==
  ASSUME NEW a, NEW b, NEW c, NEW d, NEW e, NEW f, NEW h, NEW x \in Free,
         FreeCall(a), FreeCall(b), FreeCall(c), FreeCall(d), FreeCall(e), FreeCall(f), FreeCall(h)
  PROVE  /\ Carries(<<a>>, x, x) /\ Carries(<<a, b>>, x, x)
         /\ Carries(<<a, b, c, d, e>>, x, x) /\ Carries(<<a, b, c, d, e, f, h>>, x, x)
<1> DEFINE S == {a, b, c, d, e, f, h}
<1>1. ASSUME NEW s \in Seq(S) PROVE Carries(s, x, x)
  <2>1. \A i \in 1 .. Len(s) : s[i] \in S
    OBVIOUS
  <2>2. \A q \in S : FreeCall(q)
    OBVIOUS
  <2> HIDE DEF S
  <2>3. \A i \in 1 .. Len(s) : Keeps(s[i], x)
    BY <2>1, <2>2, FreeKeeps
  <2>4. IsSequence(s) /\ x \in SUBSET Facts
    BY DEF IsSequence, Free, Facts
  <2> QED
    BY <2>3, <2>4, CarryKeeps
<1>2. /\ <<a>> \in Seq(S) /\ <<a, b>> \in Seq(S) /\ <<a, b, c, d, e>> \in Seq(S)
      /\ <<a, b, c, d, e, f, h>> \in Seq(S)
  OBVIOUS
<1> HIDE DEF S
<1> QED
  BY <1>1, <1>2

----------------------------------------------------------------------------
(* The way back to the boot set-up.                                        *)
LEMMA CarryRestore ==
  ASSUME NEW x \in Free
  PROVE  /\ Carries(acq_chain_restore, x, x) /\ Carries(capture_chain_stop, x, x)
         /\ Carries(<<Do("settle")>>, x, x) /\ Carries(<<Call("route", "none")>>, x, x)
<1>1. \A f \in {"settle", "sccp1_stop", "sccp1_count", "adc_ch0_irq", "step_on", "restore_dac2",
                "clock_dac_select", "core_down", "adc_init", "capture_init", "powered", "adc_deinit",
                "clock_adc_set_pll", "adc_reinit", "restart", "route"} :
        FreeCall(Do(f)) /\ \A y : FreeCall(Call(f, y))
  BY FreeIs DEF FreeName
<1>2. /\ FreeCall(Do("settle")) /\ FreeCall(Do("sccp1_stop")) /\ FreeCall(Do("core_down"))
      /\ FreeCall(Do("capture_init")) /\ FreeCall(Do("restore_dac2")) /\ FreeCall(Do("adc_deinit"))
      /\ FreeCall(Do("restart")) /\ FreeCall(Call("sccp1_count", FALSE))
      /\ FreeCall(Call("adc_ch0_irq", FALSE)) /\ FreeCall(Call("step_on", FALSE))
      /\ FreeCall(Call("clock_dac_select", "pll1")) /\ FreeCall(Call("adc_init", "boot"))
      /\ FreeCall(Call("powered", TRUE)) /\ FreeCall(Call("route", "none"))
  BY <1>1
<1>3. FreeCall(Note("clock_adc_set_pll", "board", <<>>)) /\ FreeCall(Note("adc_reinit", 0, <<>>))
  <2>1. FreeCall(Call("clock_adc_set_pll", "board")) /\ FreeCall(Call("adc_reinit", 0))
    BY <1>1
  <2> QED
    BY <2>1 DEF Call, Note
<1>4. Carries(<<Do("settle"), Do("sccp1_stop"), Call("sccp1_count", FALSE),
                Call("adc_ch0_irq", FALSE), Call("step_on", FALSE), Do("restore_dac2"),
                Call("clock_dac_select", "pll1")>>, x, x)
  BY <1>2, FreeRows
<1>5. Carries(capture_select_core("boot"), x, x)
  BY <1>2, FreeRows DEF capture_select_core
<1>6. Carries(capture_set_pll("board", <<>>), x, x)
  BY <1>2, <1>3, FreeRows DEF capture_set_pll
<1>7. Carries(acq_chain_restore, x, x)
  <2> DEFINE p == <<Do("settle"), Do("sccp1_stop"), Call("sccp1_count", FALSE),
                    Call("adc_ch0_irq", FALSE), Call("step_on", FALSE), Do("restore_dac2"),
                    Call("clock_dac_select", "pll1")>>
             q == capture_select_core("boot")
             w == capture_set_pll("board", <<>>)
  <2>1. Carries(p, x, x) /\ Carries(q, x, x) /\ Carries(w, x, x)
    BY <1>4, <1>5, <1>6
  <2>2. acq_chain_restore = p \o q \o w
    BY DEF acq_chain_restore
  <2> HIDE DEF p, q, w
  <2>3. Carries(p \o q, x, x)
    BY <2>1, CarryJoin
  <2>4. Carries((p \o q) \o w, x, x)
    BY <2>1, <2>3, CarryJoin
  <2> QED
    BY <2>2, <2>4
<1>8. /\ Carries(capture_chain_stop, x, x) /\ Carries(<<Do("settle")>>, x, x)
      /\ Carries(<<Call("route", "none")>>, x, x)
  <2>1. capture_chain_stop = <<Do("sccp1_stop"), Do("settle")>>
    BY DEF capture_chain_stop
  <2>2. Carries(<<Do("sccp1_stop"), Do("settle")>>, x, x)
    BY <1>2, FreeRows
  <2>3. Carries(<<Do("settle")>>, x, x) /\ Carries(<<Call("route", "none")>>, x, x)
    BY <1>2, FreeRows
  <2> QED
    BY <2>1, <2>2, <2>3
<1> QED
  BY <1>7, <1>8

(* A program that carries to enough is one.                                *)
LEMMA CarriesOut ==
  ASSUME NEW s, NEW x, NEW y \in SUBSET Facts, Carries(s, x, y), Enough(y) PROVE Leads(s, x)
<1>1. Leads(<<>>, y)
  BY LeadsEmpty
<1>2. Leads(s \o <<>>, x) /\ IsSequence(s)
  BY <1>1 DEF Carries
<1>3. s \o <<>> = s
  <2>1. PICK S : s \in Seq(S)
    BY <1>2 DEF IsSequence
  <2> QED
    BY <2>1, ConcatEmptySeq
<1> QED
  BY <1>2, <1>3

LEMMA OffCarries ==
  /\ Carries(ChainUndone, {"none"}, {"none"})
  /\ Carries(capture_chain_stop \o acq_chain_restore
             \o <<Call("route", "none"), Call("stream", FALSE)>>, {}, {"none"})
<1>1. {} \in Free /\ {"none"} \in Free /\ {"none"} \in SUBSET Facts /\ {} \in SUBSET Facts
      /\ Enough({"none"})
  BY DEF Free, Facts, Enough
<1> DEFINE n == {"none"}
<1> HIDE DEF n
<1>2. /\ Carries(acq_chain_restore, n, n) /\ Carries(<<Do("settle")>>, n, n)
      /\ Carries(<<Call("route", "none")>>, n, n)
  BY <1>1, CarryRestore DEF n
<1>3. Carries(ChainUndone, n, n)
  BY <1>2, CarryJoin DEF ChainUndone, Undone
<1>4. /\ Carries(acq_chain_restore, {}, {}) /\ Carries(capture_chain_stop, {}, {})
      /\ Carries(<<Call("route", "none")>>, {}, {})
  BY <1>1, CarryRestore
<1>5. Carries(<<Call("stream", FALSE)>>, {}, n)
  <2> DEFINE c == Call("stream", FALSE)
  <2>1. c[1] = "stream" /\ c[2] = FALSE /\ c[3] = 0 /\ c[4] = <<>>
    BY DEF Call, OrElse
  <2> HIDE DEF c
  <2>2. Lawful(c, {})
    BY <2>1 DEF Lawful, Everything
  <2>3. n \subseteq After(c, {})
    <3>1. After(c, {}) = StreamSet(c, {})
      BY <2>1, AfterIs
    <3> QED
      BY <2>1, <3>1 DEF n, StreamSet
  <2>4. Carries(<<c>>, {}, n)
    BY <1>1, <2>1, <2>2, <2>3, CarryOne
  <2> QED
    BY <2>4 DEF c
<1>6. Carries(<<Call("route", "none"), Call("stream", FALSE)>>, {}, n)
  BY <1>4, <1>5, Carry2
<1>7. Carries((capture_chain_stop \o acq_chain_restore)
              \o <<Call("route", "none"), Call("stream", FALSE)>>, {}, n)
  <2>1. Carries(capture_chain_stop \o acq_chain_restore, {}, {})
    BY <1>4, CarryJoin
  <2> QED
    BY <1>6, <2>1, CarryJoin
<1> QED
  BY <1>3, <1>7 DEF n
LEMMA UndoneLeads == Leads(acq_chain_restore, {"none"}) /\ Leads(ChainUndone, {"none"})
<1>1. {"none"} \in Free /\ {"none"} \in SUBSET Facts /\ Enough({"none"})
  BY DEF Free, Facts, Enough
<1>2. Carries(acq_chain_restore, {"none"}, {"none"})
  BY <1>1, CarryRestore
<1> QED
  BY <1>1, <1>2, OffCarries, CarriesOut

LEMMA CallIs ==
  ASSUME NEW f, NEW v
  PROVE  /\ Call(f, v)[1] = f /\ Call(f, v)[2] = v /\ Call(f, v)[3] = 0 /\ Call(f, v)[4] = <<>>
         /\ Do(f) = Call(f, 0)
  BY DEF Call, OrElse, Do
LEMMA NoteIs ==
  ASSUME NEW f, NEW v, NEW e
  PROVE  /\ Note(f, v, e)[1] = f /\ Note(f, v, e)[2] = v
         /\ Note(f, v, e)[3] = 0 /\ Note(f, v, e)[4] = e
  BY DEF Note, OrElse

LEMMA CarryCall ==
  ASSUME NEW f, f \notin {"stream_on_route", "route_applied", "siggen_start", "run"}, NEW v,
         NEW x \in SUBSET Facts, NEW y,
         \A c : c[1] = f /\ c[2] = v => y \subseteq After(c, x)
  PROVE  Carries(<<Call(f, v)>>, x, y)
<1> DEFINE c == Call(f, v)
<1>1. c[1] = f /\ c[2] = v /\ c[3] = 0 /\ c[4] = <<>>
  BY CallIs
<1> HIDE DEF c
<1>2. Lawful(c, x)
  BY <1>1 DEF Lawful, Everything
<1>3. y \subseteq After(c, x)
  BY <1>1
<1>4. Carries(<<c>>, x, y)
  BY <1>1, <1>2, <1>3, CarryOne
<1> QED
  BY <1>4 DEF c

(* A call whose failure is noted with the chain's set-up not in order.     *)
LEMMA CarryNoted ==
  ASSUME NEW f, f \notin {"stream_on_route", "route_applied", "siggen_start", "run"}, NEW v,
         NEW x \in SUBSET Facts, "ok" \notin x, NEW y,
         \A c : c[1] = f /\ c[2] = v /\ c[4] = NotOk => y \subseteq After(c, x)
  PROVE  Carries(<<Note(f, v, NotOk)>>, x, y)
<1> DEFINE c == Note(f, v, NotOk)
<1>1. c[1] = f /\ c[2] = v /\ c[3] = 0 /\ c[4] = NotOk
  BY NoteIs
<1> HIDE DEF c
<1>2. Lawful(c, x)
  BY <1>1 DEF Lawful, Everything
<1>3. y \subseteq After(c, x)
  BY <1>1
<1>4. Carries(<<c>>, x, y)
  BY <1>1, <1>2, <1>3, CarryOne
<1> QED
  BY <1>4 DEF c

(* What the calls of an outline leave known.                               *)
LEMMA AfterSettle ==
  ASSUME NEW c, c[1] = "settle", NEW x
  PROVE  /\ {"halted", "quiet"} \subseteq After(c, x)
         /\ x \ {"armed", "mode", "was", "on"} \subseteq After(c, x)
         /\ "quiet" \in x /\ x \cap {"armed", "mode", "was"} = {} => x \subseteq After(c, x)
         /\ "halted" \in x => "was" \in After(c, x)
<1>1. After(c, x) = SettleDone(c, x)
  BY AfterIs
<1> QED
  BY <1>1 DEF If, SettleDone

(* The outline of a start of the stream: its route and core;               *)
Ways   == {{"signal", "at_chain"}, {"input", "at_input"}}
Settled   == {"none", "halted", "quiet"}
Clocked   == Settled \cup {"pll", "trig"}
Selected(r) == Clocked \cup {"on", "irqsel"} \cup (r \ {"signal", "input"})
Chosen(r)   == Selected(r) \cup {"single"}
Applied(r)  == Chosen(r) \cup {"ok"} \cup r
Armed0(r)   == Applied(r) \cup {"mode", "chain", "armed"}
Started(r)  == (Applied(r) \ {"halted"}) \cup {"chain", "pairs"}
Standing(r) == (Started(r) \ {"none"}) \cup {"one"}

LEMMA WaysKnown ==
  ASSUME NEW r \in Ways
  PROVE  /\ Settled \in SUBSET Facts /\ Settled \cup {"was"} \in SUBSET Facts
         /\ Settled \cup {"pll"} \in SUBSET Facts
         /\ Clocked \in SUBSET Facts /\ Selected(r) \in SUBSET Facts /\ Chosen(r) \in SUBSET Facts
         /\ Applied(r) \in SUBSET Facts /\ Armed0(r) \in SUBSET Facts
         /\ Applied(r) \cup {"mode", "chain"} \in SUBSET Facts
         /\ Started(r) \in SUBSET Facts /\ Started(r) \cup {"one"} \in SUBSET Facts
         /\ Standing(r) \in SUBSET Facts /\ Enough(Standing(r))
         /\ SetUp(Applied(r))
<1>1. r \subseteq Facts
  BY DEF Ways, Facts
<1>2. Enough(Standing(r))
  BY DEF Ways, Enough, Standing, Started, Applied, Chosen, Selected, Clocked, Settled
<1>3. SetUp(Applied(r))
  BY DEF Ways, SetUp, Applied, Chosen, Selected, Clocked, Settled
<1> QED
  BY <1>1, <1>2, <1>3 DEF Facts, Standing, Started, Armed0, Applied, Chosen, Selected, Clocked, Settled

(* capture_chain_start();                                                  *)
LEMMA StartCarries ==
  ASSUME NEW r \in Ways PROVE Carries(ChainStart, Applied(r), Standing(r))
<1>1. Carries(<<Do("settle")>>, Applied(r), Applied(r))
  <2>1. "quiet" \in Applied(r) /\ Applied(r) \cap {"armed", "mode", "was"} = {}
    BY DEF Ways, Applied, Chosen, Selected, Clocked, Settled
  <2>2. \A c : c[1] = "settle" => Applied(r) \subseteq After(c, Applied(r))
    BY <2>1, AfterSettle
  <2>3. Carries(<<Call("settle", 0)>>, Applied(r), Applied(r))
    BY <2>2, WaysKnown, CarryCall
  <2> QED
    BY <2>3 DEF Do
<1> DEFINE k == Applied(r) \cup {"mode", "chain"}
<1>2. Carries(<<Call("chain", TRUE)>>, Applied(r), k)
  <2>1. ASSUME NEW c, c[1] = "chain", c[2] = TRUE PROVE k \subseteq After(c, Applied(r))
    <3>1. After(c, Applied(r)) = ChainSet(c, Applied(r))
      BY <2>1, AfterIs
    <3> QED
      BY <2>1, <3>1 DEF If, ChainSet
  <2> QED
    BY <2>1, WaysKnown, CarryCall
<1>3. Carries(<<Do("capture_init")>>, k, Armed0(r))
  <2>1. {"halted", "mode"} \subseteq k /\ "armed" \notin k /\ "pairs" \notin k
    BY DEF Ways, Applied, Chosen, Selected, Clocked, Settled
  <2>2. Armed0(r) = k \cup {"armed"} /\ k \in SUBSET Facts
    BY WaysKnown DEF Armed0
  <2> HIDE DEF k
  <2>3. ASSUME NEW c, c[1] = "capture_init" PROVE Armed0(r) \subseteq After(c, k)
    <3>1. After(c, k) = InitDone(c, k)
      BY <2>3, AfterIs
    <3> QED
      BY <2>1, <2>2, <3>1 DEF If, InitDone
  <2>4. Carries(<<Call("capture_init", 0)>>, k, Armed0(r))
    BY <2>2, <2>3, CarryCall
  <2> QED
    BY <2>4 DEF Do
<1> HIDE DEF k
<1>4. Carries(<<Call("run", TRUE)>>, Armed0(r), Started(r))
  <2> DEFINE c == Call("run", TRUE)
  <2>1. c[1] = "run" /\ c[2] = TRUE /\ c[3] = 0 /\ c[4] = <<>>
    BY DEF Call, OrElse
  <2> HIDE DEF c
  <2>2. Lawful(c, Armed0(r))
    BY <2>1 DEF Lawful, Everything
  <2>3. After(c, Armed0(r)) = Running(c, Armed0(r))
    BY <2>1, AfterIs
  <2>4. "armed" \in Armed0(r) /\ "mode" \in Armed0(r)
        /\ Started(r) \ {"pairs", "chain"} \subseteq Armed0(r) \ {"halted", "armed", "pairs", "one", "chain"}
    BY DEF Ways, Armed0, Started, Applied, Chosen, Selected, Clocked, Settled
  <2>5. Started(r) \subseteq After(c, Armed0(r))
    BY <2>3, <2>4 DEF If, Running
  <2>6. Carries(<<c>>, Armed0(r), Started(r))
    BY <2>1, <2>2, <2>5, WaysKnown, CarryOne
  <2> QED
    BY <2>6 DEF c
<1>5. Carries(<<OrElse("sccp1_start", 0, Everything, ChainUndone)>>, Started(r), Started(r) \cup {"one"})
  <2> DEFINE c == OrElse("sccp1_start", 0, Everything, ChainUndone)
             z == Started(r)
  <2>1. c[1] = "sccp1_start" /\ c[3] = Everything /\ c[4] = ChainUndone
    BY DEF OrElse
  <2>2. "none" \in z /\ z \in SUBSET Facts
    BY WaysKnown DEF Started, Applied, Chosen, Selected, Clocked, Settled
  <2> HIDE DEF c, z
  <2>3. Lawful(c, z)
    BY <2>1, <2>2 DEF Lawful, Everything
  <2>4. After(c, z) = z \cup {"one"}
    BY <2>1, AfterIs DEF TimerOn
  <2>5. Carries(<<c>>, z, z \cup {"one"})
    BY <2>1, <2>2, <2>3, <2>4, CarryOne DEF Everything
  <2> QED
    BY <2>5 DEF c, z
<1>6. Carries(<<Call("stream", TRUE)>>, Started(r) \cup {"one"}, Standing(r))
  <2> DEFINE z == Started(r) \cup {"one"}
  <2>1. Standing(r) = z \ {"none"} /\ z \in SUBSET Facts
    BY WaysKnown DEF Standing
  <2> HIDE DEF z
  <2>2. ASSUME NEW c, c[1] = "stream", c[2] = TRUE PROVE Standing(r) \subseteq After(c, z)
    <3>1. After(c, z) = StreamSet(c, z)
      BY <2>2, AfterIs
    <3> QED
      BY <2>1, <2>2, <3>1 DEF StreamSet
  <2>3. Carries(<<Call("stream", TRUE)>>, z, Standing(r))
    BY <2>1, <2>2, CarryCall
  <2> QED
    BY <2>3 DEF z
<1>7. Carries(capture_chain_start(Everything, Undone), Applied(r), Started(r) \cup {"one"})
  <2> DEFINE c1 == Do("settle")
             c2 == Call("chain", TRUE)
             c3 == Do("capture_init")
             c4 == Call("run", TRUE)
             c5 == OrElse("sccp1_start", 0, Everything, ChainUndone)
  <2>1. capture_chain_start(Everything, Undone) = <<c1, c2, c3, c4, c5>>
    BY DEF capture_chain_start, ChainUndone
  <2>2. /\ Carries(<<c1>>, Applied(r), Applied(r)) /\ Carries(<<c2>>, Applied(r), k)
        /\ Carries(<<c3>>, k, Armed0(r)) /\ Carries(<<c4>>, Armed0(r), Started(r))
        /\ Carries(<<c5>>, Started(r), Started(r) \cup {"one"})
    BY <1>1, <1>2, <1>3, <1>4, <1>5
  <2> HIDE DEF c1, c2, c3, c4, c5
  <2>3. Carries(<<c1, c2, c3, c4, c5>>, Applied(r), Started(r) \cup {"one"})
    BY <2>2, Carry5, ZenonT(60)
  <2> QED
    BY <2>1, <2>3
<1> DEFINE s == capture_chain_start(Everything, Undone)
           t == <<Call("stream", TRUE)>>
<1>8. Carries(s, Applied(r), Started(r) \cup {"one"}) /\ Carries(t, Started(r) \cup {"one"}, Standing(r))
  BY <1>6, <1>7
<1>9. ChainStart = s \o t
  BY DEF ChainStart
<1> HIDE DEF s, t
<1>10. Carries(s \o t, Applied(r), Standing(r))
  BY <1>8, CarryJoin
<1> QED
  BY <1>9, <1>10

LEMMA StartLeads ==
  ASSUME NEW x, SetUp(x) PROVE Leads(ChainStart, x)
<1>1. PICK r \in Ways : r \subseteq x
  BY DEF SetUp, Ways
<1>2. Applied(r) \subseteq x
  BY <1>1 DEF SetUp, Applied, Chosen, Selected, Clocked, Settled
<1>3. Leads(ChainStart, Applied(r))
  BY StartCarries, WaysKnown, CarriesOut
<1> QED
  BY <1>2, <1>3, LeadsMore

(* Calls that leave known what was known.                                  *)
LEMMA CarryElse ==
  ASSUME NEW f, f \notin Touching \cup {"siggen_start"}, NEW v, NEW x \in SUBSET Facts
  PROVE  Carries(<<Call(f, v)>>, x, x)
<1>1. \A c : c[1] = f /\ c[2] = v => x \subseteq After(c, x)
  BY AfterElse
<1>2. f \notin {"stream_on_route", "route_applied", "siggen_start", "run"}
  BY DEF Touching, SetupCalls, AdcCalls, CaptureCalls
<1> QED
  BY <1>1, <1>2, CarryCall

LEMMA CarrySettle ==
  ASSUME NEW x \in SUBSET Facts, NEW y,
         \/ y \subseteq {"halted", "quiet"} \cup (x \ {"armed", "mode", "was", "on"})
         \/ "quiet" \in x /\ x \cap {"armed", "mode", "was"} = {} /\ y \subseteq x
         \/ "halted" \in x /\ y \subseteq {"halted", "quiet", "was"} \cup (x \ {"armed", "mode", "on"})
  PROVE  Carries(<<Do("settle")>>, x, y)
<1>1. ASSUME NEW c, c[1] = "settle" PROVE y \subseteq After(c, x)
  <2>1. /\ {"halted", "quiet"} \subseteq After(c, x)
        /\ x \ {"armed", "mode", "was", "on"} \subseteq After(c, x)
        /\ "quiet" \in x /\ x \cap {"armed", "mode", "was"} = {} => x \subseteq After(c, x)
        /\ "halted" \in x => "was" \in After(c, x)
    BY <1>1, AfterSettle
  <2> QED
    BY <2>1
<1>2. Carries(<<Call("settle", 0)>>, x, y)
  BY <1>1, CarryCall
<1> QED
  BY <1>2 DEF Do

(* capture_set_pll(), from a capture at rest;                              *)
LEMMA PllCarries ==
  Carries(capture_set_pll("chain", NotOk), Settled, Settled \cup {"pll"})
<1> DEFINE a == Settled \cup {"was"}
           b == Settled \cup {"was", "pll"}
<1>1. /\ Settled \in SUBSET Facts /\ a \in SUBSET Facts /\ b \in SUBSET Facts
      /\ "ok" \notin a /\ "ok" \notin b /\ "on" \notin a /\ "on" \notin b /\ "was" \in b
      /\ "halted" \in Settled /\ b = a \cup {"pll"} /\ "pll" \notin a /\ Settled \cup {"pll"} \subseteq b
      /\ a \subseteq {"halted", "quiet", "was"} \cup (Settled \ {"armed", "mode", "on"})
  BY DEF Settled, Facts
<1> HIDE DEF a, b
<1>2. Carries(<<Do("settle")>>, Settled, a)
  BY <1>1, CarrySettle
<1>3. Carries(<<Do("adc_deinit")>>, a, a)
  <2>1. ASSUME NEW c, c[1] = "adc_deinit" PROVE a \subseteq After(c, a)
    <3>1. After(c, a) = AdcDown(c, a)
      BY <2>1, AfterIs
    <3> QED
      BY <1>1, <3>1 DEF AdcDown
  <2>2. Carries(<<Call("adc_deinit", 0)>>, a, a)
    BY <1>1, <2>1, CarryCall
  <2> QED
    BY <2>2 DEF Do
<1>4. Carries(<<Note("clock_adc_set_pll", "chain", NotOk)>>, a, b)
  <2>1. ASSUME NEW c, c[1] = "clock_adc_set_pll", c[2] = "chain", c[4] = NotOk
        PROVE  b \subseteq After(c, a)
    <3>1. After(c, a) = PllSet(c, a)
      BY <2>1, AfterIs
    <3> QED
      BY <1>1, <2>1, <3>1 DEF PllSet, If
  <2> QED
    BY <1>1, <2>1, CarryNoted
<1>5. Carries(<<Note("adc_reinit", 0, NotOk)>>, b, b)
  <2>1. ASSUME NEW c, c[1] = "adc_reinit" PROVE b \subseteq After(c, b)
    <3>1. After(c, b) = AdcDown(c, b)
      BY <2>1, AfterIs
    <3> QED
      BY <1>1, <3>1 DEF AdcDown
  <2> QED
    BY <1>1, <2>1, CarryNoted
<1>6. Carries(<<Do("restart")>>, b, Settled \cup {"pll"})
  <2>1. ASSUME NEW c, c[1] = "restart" PROVE Settled \cup {"pll"} \subseteq After(c, b)
    <3>1. After(c, b) = BurstBack(c, b)
      BY <2>1, AfterIs
    <3> QED
      BY <1>1, <3>1 DEF BurstBack, If
  <2>2. Carries(<<Call("restart", 0)>>, b, Settled \cup {"pll"})
    BY <1>1, <2>1, CarryCall
  <2> QED
    BY <2>2 DEF Do
<1> QED
  BY <1>2, <1>3, <1>4, <1>5, <1>6, Carry5 DEF capture_set_pll

(* capture_select_core();                                                  *)
CoreOf(r) == IF "at_chain" \in r THEN "chain" ELSE "input"
LEMMA CoreCarries ==
  ASSUME NEW r \in Ways PROVE Carries(capture_select_core(CoreOf(r)), Clocked, Selected(r))
<1> DEFINE x == Clocked
           y == Selected(r)
<1>1. /\ x \in SUBSET Facts /\ y \in SUBSET Facts
      /\ x \cap {"armed", "mode", "was", "on", "single", "at_chain", "at_input", "pairs"} = {}
      /\ y \cap {"armed", "pairs"} = {} /\ "quiet" \in x
      /\ y \subseteq x \cup {"on", "irqsel"} \cup (r \cap {"at_chain", "at_input"})
      /\ "at_chain" \in r => CoreOf(r) = "chain" /\ "at_input" \notin r
      /\ "at_input" \in r => CoreOf(r) = "input"
  BY WaysKnown DEF Ways, CoreOf, Clocked, Settled, Selected
<1> HIDE DEF x, y
<1>2. Carries(<<Do("settle")>>, x, x)
  BY <1>1, CarrySettle
<1>3. Carries(<<Do("core_down")>>, x, x)
  <2>1. ASSUME NEW c, c[1] = "core_down" PROVE x \subseteq After(c, x)
    <3>1. After(c, x) = AdcDown(c, x)
      BY <2>1, AfterIs
    <3> QED
      BY <1>1, <3>1 DEF AdcDown
  <2>2. Carries(<<Call("core_down", 0)>>, x, x)
    BY <1>1, <2>1, CarryCall
  <2> QED
    BY <2>2 DEF Do
<1>4. Carries(<<Call("adc_init", CoreOf(r))>>, x, y)
  <2>1. ASSUME NEW c, c[1] = "adc_init", c[2] = CoreOf(r) PROVE y \subseteq After(c, x)
    <3>1. After(c, x) = AdcInit(c, x)
      BY <2>1, AfterIs
    <3> QED
      BY <1>1, <2>1, <3>1 DEF AdcInit, If
  <2> QED
    BY <1>1, <2>1, CarryCall
<1>5. Carries(<<Do("capture_init")>>, y, y)
  <2>1. ASSUME NEW c, c[1] = "capture_init" PROVE y \subseteq After(c, y)
    <3>1. After(c, y) = InitDone(c, y)
      BY <2>1, AfterIs
    <3> QED
      BY <1>1, <3>1 DEF InitDone
  <2>2. Carries(<<Call("capture_init", 0)>>, y, y)
    BY <1>1, <2>1, CarryCall
  <2> QED
    BY <2>2 DEF Do
<1>6. Carries(<<Call("powered", TRUE)>>, y, y)
  BY <1>1, CarryElse DEF Touching, SetupCalls, AdcCalls, CaptureCalls
<1>7. Carries(capture_select_core(CoreOf(r)), x, y)
  BY <1>2, <1>3, <1>4, <1>5, <1>6, Carry5 DEF capture_select_core
<1> QED
  BY <1>7 DEF x, y

(* acq_chain_setup();                                                      *)
LEMMA SetupCarries ==
  ASSUME NEW r \in Ways, NEW signal \in BOOLEAN, NEW half
  PROVE  Carries(acq_chain_setup(CoreOf(r), signal, half), {"none"}, Chosen(r))
<1> DEFINE n == {"none"}
           p == Settled \cup {"pll"}
           y == Selected(r)
           z == Chosen(r)
<1>1. /\ n \in SUBSET Facts /\ Settled \in SUBSET Facts /\ p \in SUBSET Facts
      /\ Clocked \in SUBSET Facts /\ y \in SUBSET Facts /\ z \in SUBSET Facts
      /\ n \cap {"ok", "pll", "trig"} = {} /\ "ok" \notin p /\ "ok" \notin Clocked
      /\ Settled \subseteq {"halted", "quiet"} \cup n /\ n \cap {"armed", "mode", "was", "on"} = {}
      /\ "halted" \in Settled /\ Clocked = p \cup {"trig"} /\ "trig" \notin p
      /\ z = y \cup {"single"} /\ "single" \notin y
      /\ "quiet" \in z /\ z \cap {"armed", "mode", "was"} = {}
  BY WaysKnown DEF Ways, Facts, Clocked, Settled, Selected, Chosen
<1> HIDE DEF n, p, y, z
<1>2. Carries(<<Call("ok", TRUE)>>, n, n)
  <2>1. ASSUME NEW c, c[1] = "ok", c[2] = TRUE PROVE n \subseteq After(c, n)
    <3>1. After(c, n) = OkSet(c, n)
      BY <2>1, AfterIs
    <3> QED
      BY <1>1, <2>1, <3>1 DEF OkSet
  <2> QED
    BY <1>1, <2>1, CarryCall
<1>3. Carries(<<Do("settle")>>, n, Settled)
  <2>1. Settled \subseteq {"halted", "quiet"} \cup (n \ {"armed", "mode", "was", "on"})
    BY <1>1
  <2> QED
    BY <1>1, <2>1, CarrySettle
<1>4. Carries(<<Do("sccp1_stop")>>, Settled, Settled)
  <2>1. ASSUME NEW c, c[1] = "sccp1_stop" PROVE Settled \subseteq After(c, Settled)
    <3>1. After(c, Settled) = TimerOff(c, Settled)
      BY <2>1, AfterIs
    <3> QED
      BY <1>1, <3>1 DEF TimerOff, If
  <2>2. Carries(<<Call("sccp1_stop", 0)>>, Settled, Settled)
    BY <1>1, <2>1, CarryCall
  <2> QED
    BY <2>2 DEF Do
<1>5. Carries(<<Call("half", half)>>, Settled, Settled)
  BY <1>1, CarryElse DEF Touching, SetupCalls, AdcCalls, CaptureCalls
<1>6. Carries(<<Note("clock_trig_on", "on", NotOk)>>, p, Clocked)
  <2>1. ASSUME NEW c, c[1] = "clock_trig_on", c[2] = "on", c[4] = NotOk
        PROVE  Clocked \subseteq After(c, p)
    <3>1. After(c, p) = TrigOn(c, p)
      BY <2>1, AfterIs
    <3> QED
      BY <1>1, <2>1, <3>1 DEF TrigOn, If
  <2> QED
    BY <1>1, <2>1, CarryNoted
<1>7. Carries(<<Call("clock_dac_select", "pll1")>>, Clocked, Clocked)
  BY <1>1, CarryElse DEF Touching, SetupCalls, AdcCalls, CaptureCalls
<1> DEFINE test == IF signal THEN dac_start(2, "level", 1, NotOk) ELSE <<>>
<1>8. Carries(test, Clocked, Clocked)
  <2>1. CASE signal
    BY <1>1, <2>1, CarryDac
  <2>2. CASE ~signal
    BY <2>2, CarryNone
  <2> QED
    BY <2>1, <2>2
<1>9. Carries(capture_select_core(CoreOf(r)), Clocked, y)
  BY CoreCarries DEF y
<1>10. Carries(<<Call("adc_set_mode_single", "sccp1")>>, y, z)
  <2>1. ASSUME NEW c, c[1] = "adc_set_mode_single", c[2] = "sccp1" PROVE z \subseteq After(c, y)
    <3>1. After(c, y) = SingleSet(c, y)
      BY <2>1, AfterIs
    <3> QED
      BY <1>1, <2>1, <3>1 DEF SingleSet, If
  <2> QED
    BY <1>1, <2>1, CarryCall
<1>11. Carries(<<Call("adc_set_irqsel", 0)>>, z, z)
  <2>1. ASSUME NEW c, c[1] = "adc_set_irqsel", c[2] = 0 PROVE z \subseteq After(c, z)
    <3>1. After(c, z) = IrqselSet(c, z)
      BY <2>1, AfterIs
    <3> QED
      BY <1>1, <2>1, <3>1 DEF IrqselSet, If
  <2> QED
    BY <1>1, <2>1, CarryCall
<1>12. Carries(<<Do("settle")>>, z, z)
  BY <1>1, CarrySettle
<1> HIDE DEF test
<1>13. Carries(<<Call("ok", TRUE), Do("settle"), Do("sccp1_stop"), Call("half", half)>>, n, Settled)
  BY <1>2, <1>3, <1>4, <1>5, Carry4
<1>14. Carries(capture_set_pll("chain", NotOk), Settled, p)
  BY PllCarries DEF p
<1>15. Carries(<<Note("clock_trig_on", "on", NotOk), Call("clock_dac_select", "pll1")>>, p, Clocked)
  BY <1>6, <1>7, Carry2
<1>16. Carries(<<Call("adc_set_mode_single", "sccp1"), Call("adc_set_irqsel", 0), Do("settle")>>, y, z)
  BY <1>10, <1>11, <1>12, Carry3
<1>17. Carries(<<Call("ok", TRUE), Do("settle"), Do("sccp1_stop"), Call("half", half)>>
               \o capture_set_pll("chain", NotOk)
               \o <<Note("clock_trig_on", "on", NotOk), Call("clock_dac_select", "pll1")>>
               \o test, n, Clocked)
  BY <1>8, <1>13, <1>14, <1>15, CarryJoin
<1>18. Carries(capture_select_core(CoreOf(r))
               \o <<Call("adc_set_mode_single", "sccp1"), Call("adc_set_irqsel", 0), Do("settle")>>,
               Clocked, z)
  BY <1>9, <1>16, CarryJoin
<1>19. Carries(acq_chain_setup(CoreOf(r), signal, half), n, z)
  BY <1>17, <1>18, CarryJoin DEF acq_chain_setup, test
<1> QED
  BY <1>19 DEF n, z

(* What stream_on_route() goes on with.                                    *)
RouteStart(a, half) ==
  acq_chain_setup(IF a = "signal" THEN "chain" ELSE "input", a = "signal", half)
  \o <<Call("route_applied", a)>>
  \o (IF a = "signal" THEN dac_triangle_start(2, ChainStart) ELSE <<>>) \o ChainStart

LEMMA RouteLeads ==
  ASSUME NEW a \in {"signal", "input"}, NEW half PROVE Leads(RouteStart(a, half), {"none"})
<1> DEFINE r == IF a = "signal" THEN {"signal", "at_chain"} ELSE {"input", "at_input"}
           n == {"none"}
           y == Chosen(r)
           z == Applied(r)
<1>1. /\ r \in Ways /\ CoreOf(r) = (IF a = "signal" THEN "chain" ELSE "input")
      /\ (a = "signal") \in BOOLEAN
  BY DEF Ways, CoreOf
<1>2. r \ {a} \subseteq y /\ z = y \cup {"ok", a} /\ y \cap {"signal", "input"} = {}
  BY DEF Applied, Chosen, Selected, Clocked, Settled
<1>3. /\ y \in SUBSET Facts /\ z \in SUBSET Facts /\ SetUp(z) /\ "none" \in y
      /\ Standing(r) \in SUBSET Facts /\ Enough(Standing(r))
  BY <1>1, WaysKnown DEF Chosen, Selected, Clocked, Settled
<1>4. Carries(ChainStart, z, Standing(r))
  BY <1>1, StartCarries
<1>5. Carries(acq_chain_setup(CoreOf(r), a = "signal", half), n, y)
  BY <1>1, SetupCarries
<1> HIDE DEF r, n, y, z
<1>6. Carries(<<Call("route_applied", a)>>, y, z)
  <2> DEFINE c == Call("route_applied", a)
  <2>1. c[1] = "route_applied" /\ c[2] = a /\ c[3] = 0 /\ c[4] = <<>>
    BY CallIs
  <2> HIDE DEF c
  <2>2. Lawful(c, y)
    BY <1>3, <2>1 DEF Lawful, Everything
  <2>3. After(c, y) = RouteApplied(c, y)
    BY <2>1, AfterIs
  <2>4. Carries(<<c>>, y, z)
    BY <1>2, <1>3, <2>1, <2>2, <2>3, CarryOne DEF RouteApplied
  <2> QED
    BY <2>4 DEF c
<1> DEFINE t == IF a = "signal" THEN dac_triangle_start(2, ChainStart) ELSE <<>>
<1>7. Carries(t, z, z)
  <2>1. Carries(<<OrElse("clock_dac_on", 0, Everything, ChainStart)>>, z, z)
    <3> DEFINE c == OrElse("clock_dac_on", 0, Everything, ChainStart)
    <3>1. c[1] = "clock_dac_on" /\ c[3] = Everything /\ c[4] = ChainStart
      BY DEF OrElse
    <3> HIDE DEF c
    <3>2. Lawful(c, z) /\ c[3] # 1
      BY <1>3, <3>1 DEF Lawful, Everything, Touching, SetupCalls, AdcCalls, CaptureCalls
    <3>3. After(c, z) = z
      BY <3>1, AfterElse DEF Touching, SetupCalls, AdcCalls, CaptureCalls
    <3>4. Carries(<<c>>, z, z)
      BY <1>3, <3>1, <3>2, <3>3, CarryOne
    <3> QED
      BY <3>4 DEF c
  <2>2. Carries(<<Call("dac_enable", <<2, "triangle">>)>>, z, z)
    <3> DEFINE v == <<2, "triangle">>
    <3> HIDE DEF v
    <3>1. Carries(<<Call("dac_enable", v)>>, z, z)
      BY <1>3, CarryElse DEF Touching, SetupCalls, AdcCalls, CaptureCalls
    <3> QED
      BY <3>1 DEF v
  <2>3. Carries(dac_triangle_start(2, ChainStart), z, z)
    BY <2>1, <2>2, Carry2 DEF dac_triangle_start, dac_start
  <2>4. Carries(<<>>, z, z)
    BY CarryNone
  <2> QED
    BY <2>3, <2>4
<1> HIDE DEF t
<1>8. Carries(acq_chain_setup(CoreOf(r), a = "signal", half) \o <<Call("route_applied", a)>>
              \o t \o ChainStart, n, Standing(r))
  BY <1>4, <1>5, <1>6, <1>7, CarryJoin
<1>9. Leads(acq_chain_setup(CoreOf(r), a = "signal", half) \o <<Call("route_applied", a)>>
            \o t \o ChainStart, n)
  BY <1>3, <1>8, CarriesOut
<1> QED
  BY <1>1, <1>9 DEF RouteStart, t, n

(* Calls that touch nothing the stream needs.                              *)
LEMMA UntouchingKeeps ==
  ASSUME NEW c, c[1] \notin Touching \cup {"siggen_start"}, c[3] = 0, c[4] = <<>>, NEW x
  PROVE  Keeps(c, x)
<1>1. After(c, x) = x
  BY AfterElse
<1>2. c[1] \notin {"stream_on_route", "route_applied", "siggen_start", "run"}
  BY DEF Touching, SetupCalls, AdcCalls, CaptureCalls
<1>3. Lawful(c, x)
  BY <1>2 DEF Lawful, Everything
<1> QED
  BY <1>1, <1>2, <1>3 DEF Keeps
LEMMA UntouchingCarries ==
  ASSUME NEW s, Untouching(s), NEW x \in SUBSET Facts PROVE Carries(s, x, x)
<1>1. ASSUME NEW i \in 1 .. Len(s) PROVE Keeps(s[i], x)
  <2>1. s[i][1] \notin Touching \cup {"siggen_start"} /\ s[i][3] = 0 /\ s[i][4] = <<>>
    BY DEF Untouching
  <2> QED
    BY <2>1, UntouchingKeeps
<1>2. IsSequence(s)
  BY DEF Untouching
<1> QED
  BY <1>1, <1>2, CarryKeeps
LEMMA UntouchingLeads ==
  ASSUME NEW s, Untouching(s), NEW x \in SUBSET Facts, Enough(x) PROVE Leads(s, x)
  BY UntouchingCarries, CarriesOut

----------------------------------------------------------------------------
(* Whoever knows more knows that.                                          *)
LEMMA KnownLess == ASSUME NEW x, NEW y, y \subseteq x, Known(x) PROVE Known(y)
  BY DEF Known, KnownSetup, KnownAdc, KnownCapture

(* The next call, with what is known before it.                            *)
Onward(y) ==
  /\ todo # <<>> /\ IsSequence(todo) /\ y \in SUBSET Facts /\ Known(y)
  /\ Lawful(Head(todo), y) /\ Lawfully(todo, 1)
  /\ Leads(Tail(todo), After(Head(todo), y))
LEMMA OnwardIs == ASSUME OutlineInv, todo # <<>> PROVE \E y : Onward(y)
<1>1. PICK x : Known(x) /\ Leads(todo, x)
  BY DEF OutlineInv
<1>2. PICK y \in SUBSET Facts :
        /\ y \subseteq x /\ Lawful(Head(todo), y) /\ Lawfully(todo, 1)
        /\ Leads(Tail(todo), After(Head(todo), y))
  BY <1>1, LeadsPop
<1>3. Known(y)
  BY <1>1, <1>2, KnownLess
<1> QED
  BY <1>1, <1>2, <1>3 DEF Onward, Leads

(* How the command goes on: with the calls after it,                       *)
LEMMA DoneOut ==
  ASSUME NEW y, Onward(y), Done PROVE Leads(todo', After(Head(todo), y))
  BY DEF Onward, Done, Leave
(* with its own calls before them,                                         *)
LEMMA InsteadOut ==
  ASSUME NEW y, Onward(y), NEW p, Instead(p), NEW z, Carries(p, z, After(Head(todo), y))
  PROVE  Leads(todo', z)
  BY DEF Onward, Instead, Leave, Carries

(* or, after a failure, as its caller falls back.                          *)
LEMMA LeadsNotOk ==
  ASSUME NEW t, NEW x \in SUBSET Facts, "ok" \notin x, Leads(t, x)
  PROVE  Leads(NotOk \o t, x \ {"pll", "trig"})
<1> DEFINE c == Call("ok", FALSE)
           z == x \ {"pll", "trig"}
<1>1. c[1] = "ok" /\ c[2] = FALSE /\ c[3] = 0 /\ c[4] = <<>>
  BY DEF Call, OrElse
<1> HIDE DEF c
<1>2. Lawful(c, z)
  BY <1>1 DEF Lawful, Everything
<1>3. x \subseteq After(c, z)
  <2>1. After(c, z) = OkSet(c, z)
    BY <1>1, AfterIs
  <2> QED
    BY <1>1, <2>1 DEF OkSet
<1>4. z \in SUBSET Facts
  OBVIOUS
<1> HIDE DEF z
<1>5. Carries(<<c>>, z, x)
  BY <1>1, <1>2, <1>3, <1>4, CarryOne
<1> QED
  BY <1>5 DEF Carries, NotOk, c, z

LEMMA FailedOut ==
  ASSUME NEW y, Onward(y), Failed,
         After(Head(todo), y) \in SUBSET Facts, "ok" \in After(Head(todo), y) => "ok" \in y
  PROVE  LET c == Head(todo)
         IN  \/ (c[4] = <<>> \/ c[1] \notin Touching) /\ Leads(todo', After(c, y))
             \/ c[4] = NotOk /\ Leads(todo', After(c, y) \ {"pll", "trig"})
             \/ "none" \in y /\ Leads(todo', {"none"})
<1> DEFINE c == Head(todo)
           a == After(c, y)
           rest == IF c[3] = Everything THEN <<>> ELSE SubSeq(todo, 2 + c[3], Len(todo))
<1>1. /\ todo # <<>> /\ IsSequence(todo) /\ Lawful(c, y) /\ Lawfully(todo, 1) /\ Leads(Tail(todo), a)
      /\ todo' = c[4] \o rest
  BY DEF Onward, Failed
<1>2. PICK S : todo \in Seq(S)
  BY <1>1 DEF IsSequence
<1>3. c = todo[1] /\ Len(todo) \in Nat
  BY <1>1, <1>2
<1> HIDE DEF c, a, rest
<1>4. ASSUME NEW s, Leads(s, a), c[4] = <<>> \/ (c[4] = NotOk /\ "ok" \notin y), todo' = c[4] \o s
      PROVE  \/ c[4] = <<>> /\ Leads(todo', a)
             \/ c[4] = NotOk /\ Leads(todo', a \ {"pll", "trig"})
  <2>1. CASE c[4] = <<>>
    <3>1. <<>> \o s = s
      <4>1. IsSequence(s) /\ IsSequence(<<>>)
        <5>1. <<>> \in Seq({})
          OBVIOUS
        <5> QED
          BY <1>4, <5>1 DEF Leads, IsSequence
      <4> QED
        BY <4>1, Assoc
    <3> QED
      BY <1>4, <2>1, <3>1
  <2>2. CASE c[4] = NotOk /\ "ok" \notin y
    BY <1>4, <2>2, LeadsNotOk DEF a, c
  <2> QED
    BY <1>4, <2>1, <2>2
<1>5. CASE c[3] = 0
  <2>1. rest = Tail(todo)
    <3>1. rest = SubSeq(todo, 2, Len(todo))
      BY <1>5 DEF rest, Everything
    <3> QED
      BY <1>1, <1>2, <3>1
  <2>2. c[4] = <<>> \/ (c[4] = NotOk /\ "ok" \notin y)
    BY <1>1, <1>5 DEF Lawful, Everything
  <2> QED
    BY <1>1, <1>4, <2>1, <2>2 DEF a, c
<1>6. CASE c[3] = 1
  <2> DEFINE t == Tail(todo)
  <2>1. 1 < Len(todo) /\ todo[2][1] = "dac_enable"
    <3>1. 1 + 1 = 2
      OBVIOUS
    <3> QED
      BY <1>1, <1>3, <1>6, <3>1 DEF Lawfully
  <2>2. t \in Seq(S) /\ t # <<>> /\ Head(t) = todo[2]
    BY <1>1, <1>2, <2>1
  <2>3. rest = Tail(t)
    <3>1. rest = SubSeq(todo, 3, Len(todo))
      BY <1>6 DEF rest, Everything
    <3>2. t = SubSeq(todo, 2, Len(todo))
      BY <1>1, <1>2, TailIsSubSeq
    <3>3. 2 \in 1 .. Len(todo) /\ Len(todo) \in 2 .. Len(todo) /\ 2 + 1 = 3
      BY <1>3, <2>1
    <3>4. Tail(SubSeq(todo, 2, Len(todo))) = SubSeq(todo, 2 + 1, Len(todo))
      BY <1>2, <3>3, HeadTailOfSubSeq
    <3> HIDE DEF t
    <3> QED
      BY <3>1, <3>2, <3>3, <3>4
  <2> HIDE DEF t
  <2>4. PICK z \in SUBSET Facts : z \subseteq a /\ Leads(Tail(t), After(Head(t), z))
    <3>1. Leads(t, a)
      BY <1>1 DEF t
    <3> QED
      BY <2>2, <3>1, LeadsPop
  <2>5. After(Head(t), z) = z
    BY <2>1, <2>2, AfterElse DEF Touching, SetupCalls, AdcCalls, CaptureCalls
  <2>6. Leads(rest, a)
    BY <2>3, <2>4, <2>5, LeadsMore
  <2>7. c[4] = <<>> \/ (c[4] = NotOk /\ "ok" \notin y)
    BY <1>1, <1>6 DEF Lawful, Everything
  <2> QED
    BY <1>1, <1>4, <2>6, <2>7 DEF a, c
<1>7. CASE c[3] = Everything
  <2>1. todo' = c[4] \o <<>>
    BY <1>1, <1>7 DEF rest
  <2>2. ASSUME NEW x, Leads(c[4], x) PROVE Leads(todo', x)
    <3>1. PICK T : c[4] \in Seq(T)
      BY <2>2 DEF Leads, IsSequence
    <3>2. c[4] \o <<>> = c[4]
      BY <3>1, ConcatEmptySeq
    <3> QED
      BY <2>1, <2>2, <3>2
  <2>3. CASE c[4] = ChainUndone /\ "none" \in y
    BY <2>2, <2>3, UndoneLeads
  <2>4. CASE c[1] \notin Touching /\ c[4] = ChainStart /\ SetUp(y)
    <3>1. a = y
      BY <2>4, AfterElse DEF a
    <3>2. Leads(todo', a)
      BY <2>2, <2>4, <3>1, StartLeads
    <3> QED
      BY <2>4, <3>2 DEF a, c
  <2>5. CASE c[1] \notin Touching /\ Untouching(c[4]) /\ Enough(y)
    <3>1. a = y
      BY <2>5, AfterElse DEF a
    <3>2. Leads(c[4], y)
      BY <1>1, <2>5, UntouchingLeads DEF Onward
    <3>3. Leads(todo', a)
      BY <2>2, <3>1, <3>2
    <3> QED
      BY <2>5, <3>3 DEF a, c
  <2> QED
    BY <1>1, <1>7, <2>3, <2>4, <2>5 DEF Lawful
<1> QED
  BY <1>1, <1>5, <1>6, <1>7 DEF Lawful

(* What the facts are about stays as it is.                                *)
Same ==
  /\ stream' = stream /\ ok' = ok /\ route' = route
  /\ clk'.pll = clk.pll /\ clk'.trig = clk.trig
  /\ adc'.core = adc.core /\ adc'.mode = adc.mode /\ adc'.trg1 = adc.trg1
  /\ adc'.irqsel = adc.irqsel /\ adc'.on = adc.on
  /\ cap'.busy = cap.busy /\ cap'.was = cap.was /\ cap'.run = cap.run /\ cap'.chain = cap.chain
  /\ sccp'.one = sccp.one
  /\ dma.on => dma'.on
  /\ dma'.ch0 = dma.ch0 /\ dma'.pair = dma.pair
LEMMA SameKnown == ASSUME Same, NEW x, Known(x) PROVE Known(x)'
<1>1. KnownSetup(x)'
  BY DEF Same, Known, KnownSetup
<1>2. KnownAdc(x)'
  BY DEF Same, Known, KnownAdc
<1>3. KnownCapture(x)'
  BY DEF Same, Known, KnownCapture
<1> QED
  BY <1>1, <1>2, <1>3 DEF Known

LEMMA BoardSame == ASSUME Shapes, UNCHANGED board PROVE Shapes' /\ (UNCHANGED soft => Same)
  BY DEF Shapes, board, soft, Same

(* After a call that was made or failed.                                   *)
LEMMA OutlineNext ==
  ASSUME Shapes', NEW z, Known(z)', Leads(todo', z) PROVE OutlineInv'
  BY DEF OutlineInv
LEMMA DoneKept ==
  ASSUME NEW y, Onward(y), Done, Shapes', NEW z, z = After(Head(todo), y), Known(z)'
  PROVE  OutlineInv'
  BY DoneOut, OutlineNext
LEMMA FailedKept ==
  ASSUME NEW y, Onward(y), Failed, Shapes', NEW z, z = After(Head(todo), y),
         z \in SUBSET Facts, "ok" \in z => "ok" \in y,
         Known(z \ {"pll", "trig"})', Head(todo)[4] = <<>> \/ Head(todo)[1] \notin Touching => Known(z)',
         UNCHANGED soft
  PROVE  OutlineInv'
<1>1. \/ Known(z)' /\ Leads(todo', z)
      \/ Leads(todo', z \ {"pll", "trig"})
      \/ "none" \in y /\ Leads(todo', {"none"})
  BY FailedOut
<1>2. CASE Known(z)' /\ Leads(todo', z)
  BY <1>2, OutlineNext
<1>3. CASE Leads(todo', z \ {"pll", "trig"})
  BY <1>3, OutlineNext
<1>4. CASE "none" \in y /\ Leads(todo', {"none"})
  <2>1. ~stream
    BY <1>4 DEF Onward, Known, KnownSetup
  <2>2. Known({"none"})'
    BY <2>1 DEF Known, KnownSetup, KnownAdc, KnownCapture, soft
  <2> QED
    BY <1>4, <2>2, OutlineNext
<1> QED
  BY <1>1, <1>2, <1>3, <1>4

(* The calls the facts say nothing of.                                     *)
LEMMA Neutral ==
  ASSUME NEW y, Onward(y), Head(todo)[1] \notin Touching, Same, Shapes',
         Done \/ (Failed /\ UNCHANGED soft)
  PROVE  OutlineInv'
<1>1. After(Head(todo), y) = y /\ y \in SUBSET Facts /\ Known(y)
  BY AfterElse DEF Onward
<1>2. \A x : x \subseteq y => Known(x)'
  BY <1>1, SameKnown, KnownLess
<1>3. Known(y)' /\ Known(y \ {"pll", "trig"})'
  BY <1>2
<1> QED
  BY <1>1, <1>3, DoneKept, FailedKept
NeutralCall ==
  \/ clock_dac_on \/ clock_dac_select \/ dac_enable \/ dac_unit_off \/ dac_light_off
  \/ uref_set \/ window_write \/ dma0_window \/ dma2_stop \/ dma2_window \/ dma2_enable
  \/ sccp1_count \/ sccp2_start \/ sccp2_stop \/ adc_set_input \/ adc_ch0_irq
  \/ step_on \/ adc_set_trg2 \/ adc_set_period \/ clock_adc_set_div \/ clock_adc_gate
NeutralNames ==
  {"clock_dac_on", "clock_dac_select", "dac_enable", "dac_unit_off", "dac_light_off", "uref",
   "window_write", "dma0_window", "dma2_stop", "dma2_window", "dma2_enable", "sccp1_count",
   "sccp2_start", "sccp2_stop", "adc_set_input", "adc_ch0_irq", "step_on", "adc_set_trg2",
   "adc_set_period", "clock_adc_set_div", "clock_adc_gate", "gen", "claim", "ask", "unask",
   "armed", "powered", "half", "restore_dac2", "siggen_stop", "dma2_window_back"}
LEMMA NeutralNamed == NeutralNames \cap (Touching \cup {"siggen_start"}) = {}
  BY DEF NeutralNames, Touching, SetupCalls, AdcCalls, CaptureCalls
LEMMA NeutralIs ==
  ASSUME Shapes, NeutralCall, UNCHANGED soft
  PROVE  Same /\ Shapes' /\ (Done \/ Failed) /\ Head(todo)[1] \in NeutralNames
<1>1. CASE clock_dac_on \/ clock_dac_select \/ dac_enable \/ dac_unit_off \/ dac_light_off \/ uref_set
  BY <1>1 DEF clock_dac_on, clock_dac_select, dac_enable, dac_unit_off, dac_light_off, uref_set,
              Now, NeutralNames, Same, Shapes, soft
<1>2. CASE window_write \/ dma0_window \/ dma2_stop \/ dma2_window \/ dma2_enable
  BY <1>2 DEF window_write, dma0_window, dma2_stop, dma2_window, dma2_enable,
              Now, NeutralNames, Same, Shapes, soft
<1>3. CASE sccp1_count \/ sccp2_start \/ sccp2_stop
  BY <1>3 DEF sccp1_count, sccp2_start, sccp2_stop, Now, NeutralNames, Same, Shapes, soft
<1>4. CASE adc_set_input \/ adc_ch0_irq \/ step_on \/ adc_set_trg2 \/ adc_set_period
  BY <1>4 DEF adc_set_input, adc_ch0_irq, step_on, adc_set_trg2, adc_set_period, Adc,
              Now, NeutralNames, Same, Shapes, soft
<1>5. CASE clock_adc_set_div \/ clock_adc_gate
  BY <1>5 DEF clock_adc_set_div, clock_adc_gate, Switch, Now, NeutralNames, Same, Shapes, soft
<1> QED
  BY <1>1, <1>2, <1>3, <1>4, <1>5 DEF NeutralCall
LEMMA NeutralKept ==
  ASSUME NEW y, Onward(y), Shapes, NeutralCall, UNCHANGED soft PROVE OutlineInv'
  BY NeutralIs, NeutralNamed, Neutral

(* The variables of the commands, and the fields of cap.                   *)
LEMMA SoftKept ==
  ASSUME NEW y, Onward(y), Shapes,
         \/ set_gen \/ set_claim \/ ask \/ unask
         \/ \E f \in {"armed", "powered", "half"} : Cap(f)
  PROVE  OutlineInv'
<1>1. Same /\ Shapes' /\ Done /\ Head(todo)[1] \in NeutralNames
  <2>1. CASE set_gen \/ set_claim \/ ask \/ unask
    BY <2>1, BoardSame DEF set_gen, set_claim, ask, unask, Soft, Now, NeutralNames, Same, board
  <2>2. ASSUME NEW f \in {"armed", "powered", "half"}, Cap(f)
        PROVE  Same /\ Shapes' /\ Done /\ Head(todo)[1] \in NeutralNames
    BY <2>2 DEF Cap, Now, NeutralNames, Same, Shapes, soft
  <2> QED
    BY <2>1, <2>2
<1> QED
  BY <1>1, NeutralNamed, Neutral
LEMMA SetKept ==
  ASSUME NEW y, Onward(y), Shapes, set_ok \/ set_route \/ set_stream PROVE OutlineInv'
<1> DEFINE c == Head(todo)
           z == After(c, y)
<1>1. Shapes' /\ Done /\ Known(y)
  BY BoardSame DEF set_ok, set_route, set_stream, Soft, Onward
<1>2. /\ UNCHANGED <<clk, adc, dma, sccp, cap>>
      /\ c[1] \in {"ok", "route", "stream"} /\ Arg = c[2]
  BY DEF set_ok, set_route, set_stream, Soft, board, Now, Arg
<1>3. /\ c[1] = "ok" => z = OkSet(c, y) /\ ok' = c[2] /\ UNCHANGED <<stream, route>>
      /\ c[1] = "route" => z = RouteSet(c, y) /\ UNCHANGED <<stream, ok>>
      /\ c[1] = "stream" => z = StreamSet(c, y) /\ stream' = c[2] /\ UNCHANGED <<route, ok>>
  BY <1>2, AfterIs DEF set_ok, set_route, set_stream, Soft, Now
<1>4. PICK x : x = z
  OBVIOUS
<1> HIDE DEF c, z
<1>5. KnownSetup(x)'
  BY <1>1, <1>2, <1>3, <1>4 DEF Known, KnownSetup, OkSet, RouteSet, StreamSet
<1>6. KnownAdc(x)'
  BY <1>1, <1>2, <1>3, <1>4 DEF Known, KnownAdc, OkSet, RouteSet, StreamSet
<1>7. KnownCapture(x)'
  BY <1>1, <1>2, <1>3, <1>4 DEF Known, KnownCapture, OkSet, RouteSet, StreamSet
<1>8. Known(x)'
  BY <1>5, <1>6, <1>7 DEF Known
<1> QED
  BY <1>1, <1>4, <1>8, DoneKept DEF c, z

(* The calls of the ADC;                                                   *)
LEMMA AdcKept ==
  ASSUME NEW y, Onward(y), Shapes, UNCHANGED soft,
         \/ adc_deinit \/ adc_set_mode_burst \/ adc_set_mode_single \/ adc_set_mode_oversample
         \/ adc_set_irqsel
  PROVE  OutlineInv'
<1> DEFINE c == Head(todo)
           z == After(c, y)
<1>1. /\ Done /\ Known(y) /\ UNCHANGED <<clk, dma, sccp, cap, stream, ok, route>>
  BY DEF adc_deinit, adc_set_mode_burst, adc_set_mode_single, adc_set_mode_oversample,
         adc_set_irqsel, Adc, Onward, soft
<1>2. \/ z = AdcDown(c, y) /\ adc' = [adc EXCEPT !.on = "off"]
      \/ z = ModeSet(c, y) /\ \E m : adc' = [adc EXCEPT !.mode = m, !.trg1 = "software", !.trg2 = "b2b"]
      \/ z = SingleSet(c, y) /\ adc' = [adc EXCEPT !.mode = "single", !.trg1 = c[2], !.trg2 = "none"]
      \/ z = IrqselSet(c, y) /\ adc' = [adc EXCEPT !.irqsel = c[2]]
  <2>1. CASE adc_deinit
    <3>1. c[1] = "adc_deinit" /\ adc' = [adc EXCEPT !.on = "off"]
      BY <2>1 DEF adc_deinit, Adc, Now
    <3>2. z = AdcDown(c, y)
      BY <3>1, AfterIs
    <3> QED
      BY <3>1, <3>2
  <2>2. CASE adc_set_mode_burst \/ adc_set_mode_oversample
    <3>1. /\ c[1] \in {"adc_set_mode_burst", "adc_set_mode_oversample"}
          /\ \E m : adc' = [adc EXCEPT !.mode = m, !.trg1 = "software", !.trg2 = "b2b"]
      BY <2>2 DEF adc_set_mode_burst, adc_set_mode_oversample, Adc, Now
    <3>2. z = ModeSet(c, y)
      BY <3>1, AfterIs
    <3> QED
      BY <3>1, <3>2
  <2>3. CASE adc_set_mode_single
    <3>1. /\ c[1] = "adc_set_mode_single"
          /\ adc' = [adc EXCEPT !.mode = "single", !.trg1 = c[2], !.trg2 = "none"]
      BY <2>3 DEF adc_set_mode_single, Adc, Now, Arg
    <3>2. z = SingleSet(c, y)
      BY <3>1, AfterIs
    <3> QED
      BY <3>1, <3>2
  <2>4. CASE adc_set_irqsel
    <3>1. c[1] = "adc_set_irqsel" /\ adc' = [adc EXCEPT !.irqsel = c[2]]
      BY <2>4 DEF adc_set_irqsel, Adc, Now, Arg
    <3>2. z = IrqselSet(c, y)
      BY <3>1, AfterIs
    <3> QED
      BY <3>1, <3>2
  <2> QED
    BY <2>1, <2>2, <2>3, <2>4
<1>3. PICK x : x = z
  OBVIOUS
<1> HIDE DEF c, z
<1>4. Shapes'
  BY <1>1, <1>2 DEF Shapes
<1>5. KnownSetup(x)'
  BY <1>1, <1>2, <1>3 DEF Known, KnownSetup, AdcDown, ModeSet, SingleSet, IrqselSet, If
<1>6. KnownAdc(x)'
  BY <1>1, <1>2, <1>3 DEF Known, KnownAdc, AdcDown, ModeSet, SingleSet, IrqselSet, If, Shapes
<1>7. KnownCapture(x)'
  BY <1>1, <1>2, <1>3 DEF Known, KnownCapture, AdcDown, ModeSet, SingleSet, IrqselSet, If
<1>8. Known(x)'
  BY <1>5, <1>6, <1>7 DEF Known
<1> QED
  BY <1>1, <1>3, <1>4, <1>8, DoneKept DEF c, z

(* adc_init(), which may be the end of the program.                        *)
LEMMA AdcInitKept ==
  ASSUME NEW y, Onward(y), Shapes, UNCHANGED soft, adc_init PROVE OutlineInv'
<1> DEFINE c == Head(todo)
           z == After(c, y)
<1>1. /\ Done \/ Leave(<<Do("panic")>>)
      /\ Known(y) /\ UNCHANGED <<clk, dma, sccp, cap, stream, ok, route>>
  BY DEF adc_init, Onward, soft
<1>2. /\ z = AdcInit(c, y) /\ adc'.core = c[2] /\ adc'.on = "on" /\ adc'.irqsel = 0
      /\ DOMAIN adc' = DOMAIN adc
  BY AfterIs DEF adc_init, Now, Arg, Shapes
<1>3. PICK x : x = z
  OBVIOUS
<1> HIDE DEF c, z
<1>4. Shapes'
  BY <1>1, <1>2 DEF Shapes
<1>5. CASE Done
  <2>1. KnownSetup(x)'
    BY <1>1, <1>2, <1>3 DEF Known, KnownSetup, AdcInit, If
  <2>2. KnownAdc(x)'
    BY <1>1, <1>2, <1>3 DEF Known, KnownAdc, AdcInit, If
  <2>3. KnownCapture(x)'
    BY <1>1, <1>2, <1>3 DEF Known, KnownCapture, AdcInit, If
  <2>4. Known(x)'
    BY <2>1, <2>2, <2>3 DEF Known
  <2> QED
    BY <1>3, <1>4, <1>5, <2>4, DoneKept DEF c, z
<1>6. CASE Leave(<<Do("panic")>>)
  <2>1. Known({})'
    BY DEF Known, KnownSetup, KnownAdc, KnownCapture
  <2>2. Carries(<<Call("panic", 0)>>, {}, {"none"})
    <3>1. \A q : q[1] = "panic" => {"none"} \subseteq After(q, {})
      BY AfterIs DEF StreamDown
    <3> QED
      BY <3>1, CarryCall
  <2>3. Leads(<<Do("panic")>>, {})
    BY <2>2, CarriesOut DEF Do, Enough, Facts
  <2> QED
    BY <1>4, <1>6, <2>1, <2>3, OutlineNext DEF Leave
<1> QED
  BY <1>1, <1>5, <1>6

(* adc_reinit() and the switches of the clock may fail.                    *)
LEMMA SwitchKept ==
  ASSUME NEW y, Onward(y), Shapes, UNCHANGED soft, adc_reinit \/ clock_adc_set_pll \/ clock_trig_on
  PROVE  OutlineInv'
<1> DEFINE c == Head(todo)
           z == After(c, y)
<1>1. /\ Done \/ Failed
      /\ y \in SUBSET Facts /\ Known(y)
      /\ UNCHANGED <<dma, sccp, cap, stream, ok, route>>
      /\ c[4] # NotOk => Lawful(c, y)
  BY DEF adc_reinit, clock_adc_set_pll, clock_trig_on, Switch, Onward, soft
<1>2. \/ /\ c[1] = "adc_reinit" /\ z = AdcDown(c, y) /\ clk' = clk
         /\ \E n : adc' = [adc EXCEPT !.on = n]
      \/ /\ c[1] = "clock_adc_set_pll" /\ z = PllSet(c, y) /\ adc' = adc
         /\ \/ clk' = [clk EXCEPT !.pll = c[2]] /\ Done
            \/ clk' = [clk EXCEPT !.pll = "failed"] /\ Failed
      \/ /\ c[1] = "clock_trig_on" /\ z = TrigOn(c, y) /\ adc' = adc
         /\ \/ clk' = [clk EXCEPT !.trig = c[2]] /\ Done
            \/ clk' = [clk EXCEPT !.trig = "failed"] /\ Failed
  <2>1. CASE adc_reinit
    BY <2>1, AfterIs DEF adc_reinit, Now
  <2>2. CASE clock_adc_set_pll
    BY <2>2, AfterIs DEF clock_adc_set_pll, Switch, Now, Arg
  <2>3. CASE clock_trig_on
    BY <2>3, AfterIs DEF clock_trig_on, Switch, Now, Arg
  <2> QED
    BY <2>1, <2>2, <2>3
<1>3. c[1] \in Touching
  BY <1>2 DEF Touching, SetupCalls, AdcCalls
<1>4. NotOk # <<>>
  BY DEF NotOk
<1>5. PICK x : x = z
  OBVIOUS
<1> HIDE DEF c, z
<1>6. Shapes'
  BY <1>1, <1>2 DEF Shapes
<1> DEFINE v == x \ {"pll", "trig"}
<1>7. v \subseteq y /\ x \in SUBSET Facts /\ ("ok" \in x => "ok" \in y)
      /\ ("on" \in v => c[1] # "adc_reinit") /\ v \cap {"pll", "trig"} = {}
  BY <1>1, <1>2, <1>5 DEF AdcDown, PllSet, TrigOn, If, Facts
<1>8. Known(v)'
  <2>1. KnownSetup(v)'
    BY <1>1, <1>2, <1>7 DEF Known, KnownSetup
  <2>2. KnownAdc(v)'
    BY <1>1, <1>2, <1>7 DEF Known, KnownAdc, Shapes
  <2>3. KnownCapture(v)'
    BY <1>1, <1>2, <1>7 DEF Known, KnownCapture
  <2> QED
    BY <2>1, <2>2, <2>3 DEF Known
<1> DEFINE made == /\ c[1] = "clock_adc_set_pll" => clk'.pll = c[2]
                   /\ c[1] = "clock_trig_on" => clk'.trig = c[2]
<1>9. ASSUME made \/ c[4] = <<>> PROVE Known(x)'
  <2>1. KnownSetup(x)'
    <3>1. CASE c[1] = "adc_reinit"
      BY <1>1, <1>2, <1>5, <3>1 DEF Known, KnownSetup, AdcDown
    <3>2. CASE c[1] = "clock_adc_set_pll"
      <4>1. "pll" \in x => c[2] = "chain" /\ clk'.pll = c[2]
        BY <1>2, <1>4, <1>5, <1>9, <3>2 DEF PllSet, If, Shapes
      <4>2. clk'.trig = clk.trig
        BY <1>2, <3>2 DEF Shapes
      <4>3. x \subseteq y \cup {"pll"}
        BY <1>2, <1>5, <3>2 DEF PllSet, If
      <4> QED
        BY <1>1, <4>1, <4>2, <4>3 DEF Known, KnownSetup
    <3>3. CASE c[1] = "clock_trig_on"
      <4>1. "trig" \in x => c[2] = "on" /\ clk'.trig = c[2]
        BY <1>2, <1>4, <1>5, <1>9, <3>3 DEF TrigOn, If, Shapes
      <4>2. clk'.pll = clk.pll
        BY <1>2, <3>3 DEF Shapes
      <4>3. x \subseteq y \cup {"trig"}
        BY <1>2, <1>5, <3>3 DEF TrigOn, If
      <4> QED
        BY <1>1, <4>1, <4>2, <4>3 DEF Known, KnownSetup
    <3> QED
      BY <1>2, <3>1, <3>2, <3>3
  <2>2. KnownAdc(x)' /\ KnownCapture(x)'
    <3>1. x \subseteq v \cup {"pll", "trig"}
      OBVIOUS
    <3> QED
      BY <1>8, <3>1 DEF Known, KnownAdc, KnownCapture
  <2> QED
    BY <2>1, <2>2 DEF Known
<1>10. CASE Done /\ made
  BY <1>5, <1>6, <1>9, <1>10, DoneKept DEF c, z
<1>11. CASE Failed
  BY <1>3, <1>5, <1>6, <1>7, <1>8, <1>9, <1>11, FailedKept DEF c, z, v
<1>12. (Done /\ made) \/ Failed
  BY <1>1, <1>2 DEF Shapes
<1> QED
  BY <1>10, <1>11, <1>12

(* The fields of cap;                                                      *)
LEMMA CapKept ==
  ASSUME NEW y, Onward(y), Shapes, \E f \in {"chain", "run", "busy"} : Cap(f) PROVE OutlineInv'
<1> DEFINE c == Head(todo)
           z == After(c, y)
<1>1. /\ Done /\ Known(y) /\ UNCHANGED <<clk, dma, sccp, adc, stream, ok, route>>
  BY DEF Cap, Onward, soft
<1>2. \/ z = ChainSet(c, y) /\ cap' = [cap EXCEPT !.chain = c[2]]
      \/ z = Running(c, y) /\ cap' = [cap EXCEPT !.run = c[2]] /\ c[2] = TRUE
      \/ z = BusySet(c, y) /\ cap' = [cap EXCEPT !.busy = c[2]]
  <2>1. CASE Cap("chain")
    BY <2>1, AfterIs DEF Cap, Now, Arg
  <2>2. CASE Cap("run")
    <3>1. c[2] = TRUE
      BY <2>2 DEF Cap, Now, Onward, Lawful
    <3>2. z = Running(c, y) /\ cap' = [cap EXCEPT !.run = c[2]]
      BY <2>2, AfterIs DEF Cap, Now, Arg
    <3> QED
      BY <3>1, <3>2
  <2>3. CASE Cap("busy")
    BY <2>3, AfterIs DEF Cap, Now, Arg
  <2> QED
    BY <2>1, <2>2, <2>3
<1>3. PICK x : x = z
  OBVIOUS
<1> HIDE DEF c, z
<1>4. Shapes'
  BY <1>1, <1>2 DEF Shapes
<1>5. x \subseteq y \cup {"mode", "chain", "pairs"}
  BY <1>2, <1>3 DEF ChainSet, Running, BusySet, If
<1>6. KnownSetup(x)' /\ KnownAdc(x)'
  BY <1>1, <1>5 DEF Known, KnownSetup, KnownAdc
<1>7. KnownCapture(x)'
  <2>1. CASE z = ChainSet(c, y) /\ cap' = [cap EXCEPT !.chain = c[2]]
    BY <1>1, <1>3, <2>1 DEF Known, KnownCapture, ChainSet, If, Shapes
  <2>2. CASE z = Running(c, y) /\ cap' = [cap EXCEPT !.run = c[2]] /\ c[2] = TRUE
    BY <1>1, <1>3, <2>2 DEF Known, KnownCapture, Running, If, Shapes
  <2>3. CASE z = BusySet(c, y) /\ cap' = [cap EXCEPT !.busy = c[2]]
    BY <1>1, <1>3, <2>3 DEF Known, KnownCapture, BusySet, Shapes
  <2> QED
    BY <1>2, <2>1, <2>2, <2>3
<1>8. Known(x)'
  BY <1>6, <1>7 DEF Known
<1> QED
  BY <1>1, <1>3, <1>4, <1>8, DoneKept DEF c, z

(* the trigger timer, whose start may fail;                                *)
LEMMA TimerKept ==
  ASSUME NEW y, Onward(y), Shapes, UNCHANGED soft, sccp1_start \/ sccp1_stop PROVE OutlineInv'
<1> DEFINE c == Head(todo)
           z == After(c, y)
<1>1. /\ Known(y) /\ y \in SUBSET Facts /\ UNCHANGED <<clk, dma, cap, adc, stream, ok, route>>
  BY DEF sccp1_start, sccp1_stop, Onward, soft
<1>2. \/ z = TimerOn(c, y) /\ sccp' = [sccp EXCEPT !.one = TRUE] /\ (Done \/ Failed)
      \/ z = TimerOff(c, y) /\ sccp' = [sccp EXCEPT !.one = FALSE] /\ Done
  BY AfterIs DEF sccp1_start, sccp1_stop, Now
<1>3. PICK x : x = z
  OBVIOUS
<1> HIDE DEF c, z
<1>4. Shapes'
  BY <1>1, <1>2 DEF Shapes
<1>5. x \subseteq y \cup {"one"} /\ x \in SUBSET Facts
  BY <1>1, <1>2, <1>3 DEF TimerOn, TimerOff, If, Facts
<1>6. KnownSetup(x)' /\ KnownAdc(x)'
  BY <1>1, <1>5 DEF Known, KnownSetup, KnownAdc
<1>7. KnownCapture(x)'
  <2>1. "one" \in x => (cap.run => sccp'.one)
    BY <1>1, <1>2, <1>3 DEF Known, KnownCapture, TimerOn, TimerOff, If, Shapes
  <2> QED
    BY <1>1, <1>5, <2>1 DEF Known, KnownCapture
<1>8. Known(x)'
  BY <1>6, <1>7 DEF Known
<1>9. CASE Done
  BY <1>3, <1>4, <1>8, <1>9, DoneKept DEF c, z
<1>10. CASE Failed
  <2>1. Known(x \ {"pll", "trig"})'
    BY <1>8 DEF Known, KnownSetup, KnownAdc, KnownCapture
  <2> QED
    BY <1>3, <1>4, <1>5, <1>8, <1>10, <2>1, FailedKept DEF c, z
<1> QED
  BY <1>2, <1>9, <1>10

(* the stream's DMA channels;                                              *)
LEMMA DmaKept ==
  ASSUME NEW y, Onward(y), Shapes, UNCHANGED soft, dma_off_if_idle \/ dma0_stop \/ dma0_enable
  PROVE  OutlineInv'
<1> DEFINE c == Head(todo)
           z == After(c, y)
<1>1. /\ Done /\ Known(y) /\ UNCHANGED <<clk, sccp, cap, adc, stream, ok, route>>
  BY DEF dma_off_if_idle, dma0_stop, dma0_enable, Onward, soft
<1>2. \/ z = DmaIdle(c, y) /\ dma' = [dma EXCEPT !.on = dma.ch2 /\ dma.on]
      \/ z = Dma0Stop(c, y) /\ dma' = [dma EXCEPT !.ch0 = FALSE, !.pair = FALSE]
      \/ /\ z = Dma0On(c, y)
         /\ dma' = [dma EXCEPT !.on = TRUE, !.ch0 = TRUE, !.range0 = c[2][1], !.pair = c[2][2]]
  BY AfterIs DEF dma_off_if_idle, dma0_stop, dma0_enable, Now, Arg
<1>3. PICK x : x = z
  OBVIOUS
<1> HIDE DEF c, z
<1>4. Shapes'
  BY <1>1, <1>2 DEF Shapes
<1>5. x \subseteq y \cup {"pairs", "armed"}
  BY <1>2, <1>3 DEF DmaIdle, Dma0Stop, Dma0On, If
<1>6. KnownSetup(x)' /\ KnownAdc(x)'
  BY <1>1, <1>5 DEF Known, KnownSetup, KnownAdc
<1>7. KnownCapture(x)'
  <2>1. CASE z = DmaIdle(c, y) /\ dma' = [dma EXCEPT !.on = dma.ch2 /\ dma.on]
    BY <1>1, <1>3, <2>1 DEF Known, KnownCapture, DmaIdle, If, Shapes
  <2>2. CASE z = Dma0Stop(c, y) /\ dma' = [dma EXCEPT !.ch0 = FALSE, !.pair = FALSE]
    BY <1>1, <1>3, <2>2 DEF Known, KnownCapture, Dma0Stop, If, Shapes
  <2>3. CASE /\ z = Dma0On(c, y)
             /\ dma' = [dma EXCEPT !.on = TRUE, !.ch0 = TRUE, !.range0 = c[2][1], !.pair = c[2][2]]
    <3>1. dma'.on /\ dma'.ch0 /\ dma'.pair = c[2][2]
      BY <2>3 DEF Shapes
    <3>2. "armed" \in x => "halted" \in y /\ c[2][2] = TRUE
      BY <1>3, <2>3 DEF Dma0On, If
    <3>3. "pairs" \notin x
      BY <1>3, <2>3 DEF Dma0On, If
    <3> QED
      BY <1>1, <1>5, <3>1, <3>2, <3>3 DEF Known, KnownCapture
  <2> QED
    BY <1>2, <2>1, <2>2, <2>3
<1>8. Known(x)'
  BY <1>6, <1>7 DEF Known
<1> QED
  BY <1>1, <1>3, <1>4, <1>8, DoneKept DEF c, z

(* and the brake.                                                          *)
LEMMA BrakeKept == ASSUME OutlineInv, Brake PROVE OutlineInv'
<1>1. /\ cap' = [cap EXCEPT !.run = FALSE, !.armed = FALSE, !.busy = FALSE]
      /\ dma' = [dma EXCEPT !.ch0 = FALSE] /\ cap.run
      /\ UNCHANGED <<todo, clk, sccp, adc, stream, ok, route>>
  BY DEF Brake, soft
<1>2. PICK x : Known(x) /\ Leads(todo, x)
  BY DEF OutlineInv
<1>3. Shapes /\ Shapes'
  BY <1>1 DEF OutlineInv, Shapes
<1>4. KnownSetup(x)' /\ KnownAdc(x)'
  BY <1>1, <1>2 DEF Known, KnownSetup, KnownAdc
<1>5. KnownCapture(x)'
  BY <1>1, <1>2, <1>3 DEF Known, KnownCapture, Shapes
<1>6. Known(x)'
  BY <1>4, <1>5 DEF Known
<1>7. Leads(todo', x)
  BY <1>1, <1>2
<1> QED
  BY <1>3, <1>6, <1>7, OutlineNext

(* The calls that are themselves calls: what is known as they begin, and   *)
(* that their own calls carry it to what is known after them.              *)
LEMMA InsteadKept ==
  ASSUME NEW y, Onward(y), Shapes', NEW z, z = After(Head(todo), y),
         NEW x, Known(x)', NEW p, Instead(p), Carries(p, x, z)
  PROVE  OutlineInv'
<1>1. Leads(todo', x)
  BY InsteadOut
<1> QED
  BY <1>1, OutlineNext

(* Calls of one of the others' kind.                                       *)
UntouchingName(f) == f \notin Touching \cup {"siggen_start"}
UntouchingCall(c) == UntouchingName(c[1]) /\ c[3] = 0 /\ c[4] = <<>>
LEMMA UntouchingIs ==
  ASSUME NEW f, UntouchingName(f) PROVE UntouchingCall(Do(f)) /\ \A v : UntouchingCall(Call(f, v))
<1>1. ASSUME NEW v PROVE UntouchingCall(OrElse(f, v, 0, <<>>))
  BY <1>1 DEF OrElse, UntouchingCall
<1> QED
  BY <1>1 DEF Do, Call
LEMMA UntouchingRows ==
  ASSUME NEW a, NEW b, NEW c, NEW d, NEW e, NEW f,
         UntouchingCall(a), UntouchingCall(b), UntouchingCall(c), UntouchingCall(d),
         UntouchingCall(e), UntouchingCall(f)
  PROVE  /\ Untouching(<<>>) /\ Untouching(<<a>>) /\ Untouching(<<a, b>>) /\ Untouching(<<a, b, c>>)
         /\ Untouching(<<a, b, c, d, e, f>>)
<1> DEFINE S == {a, b, c, d, e, f}
<1>1. ASSUME NEW s \in Seq(S) PROVE Untouching(s)
  <2>1. \A i \in 1 .. Len(s) : s[i] \in S
    OBVIOUS
  <2>2. \A q \in S : UntouchingCall(q)
    OBVIOUS
  <2> HIDE DEF S
  <2>3. IsSequence(s)
    BY DEF IsSequence
  <2> QED
    BY <2>1, <2>2, <2>3 DEF Untouching, UntouchingCall, UntouchingName
<1>2. /\ <<>> \in Seq(S) /\ <<a>> \in Seq(S) /\ <<a, b>> \in Seq(S) /\ <<a, b, c>> \in Seq(S)
      /\ <<a, b, c, d, e, f>> \in Seq(S)
  OBVIOUS
<1> HIDE DEF S
<1> QED
  BY <1>1, <1>2

(* A call whose failure gives the rest up and undoes what came before.     *)
LEMMA CarryTry ==
  ASSUME NEW f, UntouchingName(f), NEW v, NEW s, Untouching(s),
         NEW x \in SUBSET Facts, Enough(x)
  PROVE  Carries(<<Try(f, v, s)>>, x, x)
<1> DEFINE c == Try(f, v, s)
<1>1. c[1] = f /\ c[3] = Everything /\ c[4] = s
  BY DEF Try, OrElse
<1> HIDE DEF c
<1>2. f \notin Touching /\ f \notin {"stream_on_route", "route_applied", "siggen_start", "run"}
  BY DEF UntouchingName, Touching, SetupCalls, AdcCalls, CaptureCalls
<1>3. Lawful(c, x) /\ c[3] # 1
  BY <1>1, <1>2 DEF Lawful, Everything
<1>4. After(c, x) = x
  BY <1>1, <1>2, AfterElse
<1>5. Carries(<<c>>, x, x)
  BY <1>1, <1>2, <1>3, <1>4, CarryOne
<1> QED
  BY <1>5 DEF c

(* The generator's calls.                                                  *)
LEMMA UntouchingNames ==
  \A f \in {"sccp2_stop", "dma2_stop", "dma2_window", "dma2_window_back", "dac_unit_off",
            "dac_light_off", "claim", "gen", "unask", "ask", "dac_enable", "window_write",
            "clock_dac_on", "dma2_enable", "sccp2_start", "siggen_stop", "dma0_window", "armed",
            "half", "clock_adc_gate"} :
    UntouchingName(f)
  BY DEF UntouchingName, Touching, SetupCalls, AdcCalls, CaptureCalls
LEMMA OutputsUntouching ==
  ASSUME NEW u
  PROVE  /\ Untouching(<<>>) /\ Untouching(dac_off(u)) /\ Untouching(<<Do("sccp2_stop")>>)
         /\ Untouching(dma_tx_stop) /\ Untouching(<<Call("claim", u), Call("gen", u)>>)
         /\ Untouching(<<Call("unask", u)>>) /\ Untouching(<<Call("ask", u)>>)
         /\ Untouching(<<Do("window_write")>>) /\ Untouching(<<Do("siggen_stop")>>)
         /\ Untouching(<<Call("siggen_stop", u)>>)
<1>1. /\ UntouchingCall(Do("sccp2_stop")) /\ UntouchingCall(Do("dma2_stop"))
      /\ UntouchingCall(Call("dma2_window", None)) /\ UntouchingCall(Do("dma2_window_back"))
      /\ UntouchingCall(Call("dac_unit_off", u)) /\ UntouchingCall(Do("dac_light_off"))
      /\ UntouchingCall(Call("claim", u)) /\ UntouchingCall(Call("gen", u))
      /\ UntouchingCall(Call("unask", u)) /\ UntouchingCall(Call("ask", u))
      /\ UntouchingCall(Do("window_write")) /\ UntouchingCall(Do("siggen_stop"))
      /\ UntouchingCall(Call("siggen_stop", u))
  BY UntouchingNames, UntouchingIs
<1>2. Untouching(<<>>) /\ Untouching(dac_off(u))
  <2>1. dac_off(u) = <<Call("dac_unit_off", u), Do("dac_light_off")>>
    BY DEF dac_off
  <2>2. Untouching(<<>>) /\ Untouching(<<Call("dac_unit_off", u), Do("dac_light_off")>>)
    BY <1>1, UntouchingRows, ZenonT(60)
  <2> QED
    BY <2>1, <2>2
<1>3. Untouching(dma_tx_stop)
  BY <1>1, UntouchingRows DEF dma_tx_stop
<1>4. Untouching(<<Do("sccp2_stop")>>) /\ Untouching(<<Call("claim", u), Call("gen", u)>>)
  BY <1>1, UntouchingRows
<1>5. Untouching(<<Call("unask", u)>>) /\ Untouching(<<Call("ask", u)>>)
  BY <1>1, UntouchingRows
<1>6. Untouching(<<Do("window_write")>>) /\ Untouching(<<Do("siggen_stop")>>)
  BY <1>1, UntouchingRows
<1>7. Untouching(<<Call("siggen_stop", u)>>)
  BY <1>1, UntouchingRows
<1> QED
  BY <1>2, <1>3, <1>4, <1>5, <1>6, <1>7

(* Calls that only turn outputs on and off.                                *)
LEMMA OutputsCarry ==
  ASSUME NEW u, NEW x \in SUBSET Facts
  PROVE  /\ Carries(<<>>, x, x) /\ Carries(dac_off(u), x, x) /\ Carries(<<Do("sccp2_stop")>>, x, x)
         /\ Carries(dma_tx_stop, x, x) /\ Carries(<<Call("claim", u), Call("gen", u)>>, x, x)
         /\ Carries(<<Call("unask", u)>>, x, x) /\ Carries(<<Call("ask", u)>>, x, x)
         /\ Carries(<<Do("window_write")>>, x, x) /\ Carries(<<Do("siggen_stop")>>, x, x)
         /\ Carries(<<Call("siggen_stop", u)>>, x, x)
  BY OutputsUntouching, UntouchingCarries

LEMMA UntouchingJoin ==
  ASSUME NEW s, NEW t, Untouching(s), Untouching(t) PROVE Untouching(s \o t)
<1> DEFINE u == s \o t
<1>1. /\ IsSequence(s) /\ IsSequence(t) /\ IsSequence(u)
      /\ Len(s) \in Nat /\ Len(t) \in Nat /\ Len(u) = Len(s) + Len(t)
      /\ \A i \in 1 .. Len(s) : u[i] = s[i]
      /\ \A i \in 1 .. Len(t) : u[Len(s) + i] = t[i]
  BY Joining DEF Untouching
<1> HIDE DEF u
<1>2. ASSUME NEW i \in 1 .. Len(u) PROVE i \in 1 .. Len(s) \/ \E j \in 1 .. Len(t) : i = Len(s) + j
  <2>1. i \notin 1 .. Len(s) => i - Len(s) \in 1 .. Len(t) /\ i = Len(s) + (i - Len(s))
    BY <1>1
  <2> QED
    BY <2>1
<1>3. /\ \A i \in 1 .. Len(s) : UntouchingCall(s[i])
      /\ \A i \in 1 .. Len(t) : UntouchingCall(t[i])
  BY DEF Untouching, UntouchingCall, UntouchingName
<1>4. ASSUME NEW i \in 1 .. Len(u) PROVE UntouchingCall(u[i])
  BY <1>1, <1>2, <1>3
<1>5. Untouching(u)
  BY <1>1, <1>4 DEF Untouching, UntouchingCall, UntouchingName
<1> QED
  BY <1>5 DEF u

(* A level or triangle start that gives the rest up without a clock.       *)
LEMMA StartCarry ==
  ASSUME NEW u, NEW as, NEW x \in SUBSET Facts, Enough(x)
  PROVE  Carries(dac_start(u, as, Everything, <<>>), x, x)
<1> DEFINE v == <<u, as>>
<1>1. Carries(<<Try("clock_dac_on", 0, <<>>)>>, x, x)
  <2>1. Untouching(<<>>)
    BY OutputsUntouching
  <2> QED
    BY <2>1, UntouchingNames, CarryTry
<1>2. Carries(<<Call("dac_enable", v)>>, x, x)
  <2> HIDE DEF v
  <2> QED
    BY CarryElse, UntouchingNames DEF UntouchingName
<1> QED
  BY <1>1, <1>2, Carry2 DEF dac_start, Try

LEMMA GeneratorCarries ==
  ASSUME NEW u, NEW n, NEW x \in SUBSET Facts, Enough(x)
  PROVE  Carries(dac_level_start(u, <<>>) \o <<Call("unask", u)>> \o dma_tx_start(u, n, dac_off(u))
                 \o <<Try("sccp2_start", 0, <<Do("sccp2_stop")>> \o dma_tx_stop \o dac_off(u)),
                      Call("claim", u), Call("gen", u)>>, x, x)
<1>1. Carries(dac_level_start(u, <<>>), x, x)
  BY StartCarry DEF dac_level_start
<1>2. Carries(<<Call("unask", u)>>, x, x)
  BY OutputsCarry
<1>3. Carries(dma_tx_start(u, n, dac_off(u)), x, x)
  <2> DEFINE r == TableRange(n)
             v == <<r, u>>
             d == dac_off(u)
  <2>1. Untouching(d)
    BY OutputsUntouching
  <2> HIDE DEF r, d
  <2>2. Carries(<<Do("dma2_stop")>>, x, x) /\ Carries(<<Do("window_write")>>, x, x)
    BY CarryElse, UntouchingNames DEF UntouchingName, Do
  <2>3. Carries(<<Call("dma2_window", r)>>, x, x)
    BY CarryElse, UntouchingNames DEF UntouchingName
  <2> HIDE DEF v
  <2>4. Carries(<<Try("dma2_enable", v, d)>>, x, x)
    BY <2>1, CarryTry, UntouchingNames
  <2>5. Carries(<<Do("dma2_stop"), Call("dma2_window", r), Do("window_write"),
                  Try("dma2_enable", v, d)>>, x, x)
    BY <2>2, <2>3, <2>4, Carry4
  <2> QED
    BY <2>5 DEF r, v, d, dma_tx_start
<1>4. Carries(<<Try("sccp2_start", 0, <<Do("sccp2_stop")>> \o dma_tx_stop \o dac_off(u)),
                Call("claim", u), Call("gen", u)>>, x, x)
  <2> DEFINE p == <<Do("sccp2_stop")>> \o dma_tx_stop \o dac_off(u)
  <2>1. Untouching(p)
    BY OutputsUntouching, UntouchingJoin
  <2> HIDE DEF p
  <2>2. Carries(<<Try("sccp2_start", 0, p)>>, x, x)
    BY <2>1, CarryTry, UntouchingNames
  <2>3. Carries(<<Call("claim", u)>>, x, x) /\ Carries(<<Call("gen", u)>>, x, x)
    BY CarryElse, UntouchingNames DEF UntouchingName
  <2>4. Carries(<<Try("sccp2_start", 0, p), Call("claim", u), Call("gen", u)>>, x, x)
    BY <2>2, <2>3, Carry3
  <2> QED
    BY <2>4 DEF p
<1> QED
  BY <1>1, <1>2, <1>3, <1>4, CarryJoin

(* The generator, the restore of DAC2 and the window on its way back.      *)
LEMMA OutputKept ==
  ASSUME NEW y, Onward(y), Shapes,
         siggen_stop \/ siggen_start \/ restore_dac2 \/ (dma2_window_back /\ UNCHANGED soft)
  PROVE  OutlineInv'
<1>1. Same /\ Shapes' /\ y \in SUBSET Facts /\ Known(y) /\ IsSequence(todo)
  <2>1. UNCHANGED <<stream, ok, route, board>>
    BY DEF siggen_stop, siggen_start, restore_dac2, dma2_window_back, soft
  <2> QED
    BY <2>1 DEF Onward, Same, Shapes, board
<1>2. Known(y)'
  BY <1>1, SameKnown
<1>3. \/ Leave(<<>>) /\ Enough(y)
      \/ \E p : Instead(p) /\ Carries(p, y, y)
  <2>1. CASE siggen_stop
    <3>1. Carries(<<Do("sccp2_stop")>> \o dma_tx_stop \o dac_off(gen)
                  \o <<Call("claim", 0), Call("gen", 0)>>, y, y)
      BY <1>1, OutputsCarry, CarryJoin
    <3> DEFINE p == IF gen # 0 /\ Arg \in {0, gen}
                    THEN <<Do("sccp2_stop")>> \o dma_tx_stop \o dac_off(gen)
                         \o <<Call("claim", 0), Call("gen", 0)>>
                    ELSE <<>>
    <3>2. Carries(p, y, y)
      BY <1>1, <3>1, OutputsCarry
    <3>3. Instead(p)
      BY <2>1 DEF siggen_stop
    <3> HIDE DEF p
    <3> QED
      BY <3>2, <3>3
  <2>2. CASE siggen_start
    <3>1. Enough(y)
      BY <2>2 DEF siggen_start, Now, Onward, Lawful
    <3>2. Leave(<<>>) \/ Instead(dac_level_start(Arg[1], <<>>) \o <<Call("unask", Arg[1])>>
             \o dma_tx_start(Arg[1], Arg[2], dac_off(Arg[1]))
             \o <<Try("sccp2_start", 0, <<Do("sccp2_stop")>> \o dma_tx_stop \o dac_off(Arg[1])),
                  Call("claim", Arg[1]), Call("gen", Arg[1])>>)
      BY <2>2 DEF siggen_start
    <3> QED
      BY <1>1, <3>1, <3>2, GeneratorCarries
  <2>3. CASE restore_dac2
    <3>1. Instead(dac_off(2)) \/ Instead(<<>>)
      BY <2>3 DEF restore_dac2
    <3> QED
      BY <1>1, <3>1, OutputsCarry
  <2>4. CASE dma2_window_back
    <3>1. Instead(<<Do("window_write")>>) \/ Instead(<<>>)
      BY <2>4 DEF dma2_window_back
    <3> QED
      BY <1>1, <3>1, OutputsCarry
  <2> QED
    BY <2>1, <2>2, <2>3, <2>4
<1>4. After(Head(todo), y) = y
  <2>1. Head(todo)[1] \in {"siggen_stop", "siggen_start", "restore_dac2", "dma2_window_back"}
    BY DEF siggen_stop, siggen_start, restore_dac2, dma2_window_back, Now
  <2> QED
    BY <2>1, AfterElse DEF Touching, SetupCalls, AdcCalls, CaptureCalls
<1>5. CASE Leave(<<>>) /\ Enough(y)
  BY <1>1, <1>2, <1>5, LeadsEmpty, OutlineNext DEF Leave
<1>6. CASE \E p : Instead(p) /\ Carries(p, y, y)
  BY <1>1, <1>2, <1>4, <1>6, InsteadKept
<1> QED
  BY <1>3, <1>5, <1>6

(* The calls of a capture that is halted;                                  *)
LEMMA CarryHalted ==
  ASSUME NEW x \in SUBSET Facts, "halted" \in x
  PROVE  /\ Carries(<<Do("sccp1_stop")>>, x, x)
         /\ Carries(<<Do("dma0_stop")>>, x, (x \ {"armed"}) \cup {"pairs"})
         /\ Carries(<<Do("dma_off_if_idle")>>, x, x \ {"armed"})
<1>1. ASSUME NEW c, c[1] = "sccp1_stop" PROVE x \subseteq After(c, x)
  <2>1. After(c, x) = TimerOff(c, x)
    BY <1>1, AfterIs
  <2> QED
    BY <2>1 DEF TimerOff, If
<1>2. ASSUME NEW c, c[1] = "dma0_stop" PROVE (x \ {"armed"}) \cup {"pairs"} \subseteq After(c, x)
  <2>1. After(c, x) = Dma0Stop(c, x)
    BY <1>2, AfterIs
  <2> QED
    BY <2>1 DEF Dma0Stop, If
<1>3. ASSUME NEW c, c[1] = "dma_off_if_idle" PROVE x \ {"armed"} \subseteq After(c, x)
  <2>1. After(c, x) = DmaIdle(c, x)
    BY <1>3, AfterIs
  <2> QED
    BY <2>1 DEF DmaIdle, If
<1>4. /\ Carries(<<Call("sccp1_stop", 0)>>, x, x)
      /\ Carries(<<Call("dma0_stop", 0)>>, x, (x \ {"armed"}) \cup {"pairs"})
      /\ Carries(<<Call("dma_off_if_idle", 0)>>, x, x \ {"armed"})
  BY <1>1, <1>2, <1>3, CarryCall
<1> QED
  BY <1>4 DEF Do
LEMMA CarryDown ==
  ASSUME NEW x \in SUBSET Facts, "on" \notin x
  PROVE  Carries(<<Do("adc_deinit")>>, x, x) /\ Carries(<<Do("adc_reinit")>>, x, x)
<1>1. ASSUME NEW c, c[1] \in {"adc_deinit", "adc_reinit"} PROVE x \subseteq After(c, x)
  <2>1. After(c, x) = AdcDown(c, x)
    BY <1>1, AfterIs
  <2> QED
    BY <2>1 DEF AdcDown
<1>2. Carries(<<Call("adc_deinit", 0)>>, x, x) /\ Carries(<<Call("adc_reinit", 0)>>, x, x)
  BY <1>1, CarryCall
<1> QED
  BY <1>2 DEF Do

(* capture_settle();                                                       *)
LEMMA SettleKept ==
  ASSUME NEW y, Onward(y), Shapes, capture_settle PROVE OutlineInv'
<1> DEFINE c == Head(todo)
           z == After(c, y)
           w == (y \ ({"armed", "mode", "was", "pairs"} \cup If("quiet" \notin y, {"on"})))
                \cup {"halted", "quiet", "chain", "one"} \cup If("halted" \in y, {"was"})
<1>1. PICK hangs \in {cap.busy, FALSE} :
        Instead((IF cap.chain THEN <<Do("sccp1_stop")>> ELSE <<>>)
                \o (IF hangs /\ cap.powered THEN <<Do("adc_deinit"), Do("adc_reinit")>> ELSE <<>>)
                \o dma0_deinit \o <<Call("armed", FALSE)>>)
  BY DEF capture_settle
<1>2. /\ cap' = [cap EXCEPT !.was = cap.run, !.run = FALSE, !.chain = FALSE, !.busy = FALSE]
      /\ UNCHANGED <<clk, dma, adc, sccp, stream, ok, route>>
      /\ c[1] = "settle" /\ y \in SUBSET Facts /\ Known(y)
  BY DEF capture_settle, soft, Now, Onward
<1>3. z = SettleDone(c, y)
  BY <1>2, AfterIs
<1>4. PICK x : x = z
  OBVIOUS
<1> HIDE DEF c, z
<1>5. /\ w \in SUBSET Facts /\ "halted" \in w /\ "armed" \notin w /\ x = w \cup {"pairs"}
      /\ "on" \in w => "quiet" \in y
      /\ (w \cup {"pairs"}) \in SUBSET Facts
  BY <1>2, <1>3, <1>4 DEF SettleDone, If, Facts
<1>6. Known(w)'
  <2>1. KnownSetup(w)'
    BY <1>2 DEF Known, KnownSetup, If
  <2>2. KnownAdc(w)'
    BY <1>2 DEF Known, KnownAdc, If
  <2>3. KnownCapture(w)'
    <3>1. ~cap'.run /\ ~cap'.busy /\ cap'.was = cap.run
      BY <1>2 DEF Shapes
    <3>2. "was" \in w => ~cap.run
      BY <1>2 DEF Known, KnownCapture, If
    <3>3. w \cap {"mode", "armed", "pairs"} = {}
      BY DEF If
    <3> HIDE DEF w
    <3> QED
      BY <3>1, <3>2, <3>3 DEF KnownCapture
  <2> QED
    BY <2>1, <2>2, <2>3 DEF Known
<1> HIDE DEF w
<1>7. Shapes'
  BY <1>2 DEF Shapes
<1> DEFINE a == IF cap.chain THEN <<Do("sccp1_stop")>> ELSE <<>>
           b == IF hangs /\ cap.powered THEN <<Do("adc_deinit"), Do("adc_reinit")>> ELSE <<>>
<1>8. Carries(a, w, w)
  BY <1>5, CarryHalted, CarryNone
<1>9. Carries(b, w, w)
  <2>1. CASE "on" \in w
    <3>1. ~cap.busy
      BY <1>2, <1>5, <2>1 DEF Known, KnownCapture
    <3>2. b = <<>>
      BY <3>1
    <3> HIDE DEF b
    <3> QED
      BY <3>2, CarryNone
  <2>2. CASE "on" \notin w
    <3>1. Carries(<<Do("adc_deinit")>>, w, w) /\ Carries(<<Do("adc_reinit")>>, w, w)
      BY <1>5, <2>2, CarryDown
    <3>2. Carries(<<Do("adc_deinit"), Do("adc_reinit")>>, w, w)
      BY <3>1, Carry2
    <3> QED
      BY <3>2, CarryNone
  <2> QED
    BY <2>1, <2>2
<1>10. Carries(dma0_deinit, w, x)
  <2>1. Carries(<<Do("dma0_stop")>>, w, x)
    <3>1. x = (w \ {"armed"}) \cup {"pairs"}
      BY <1>5
    <3> QED
      BY <1>5, <3>1, CarryHalted
  <2>2. Carries(<<Do("dma_off_if_idle")>>, x, x)
    <3>1. x = x \ {"armed"} /\ x \in SUBSET Facts /\ "halted" \in x
      BY <1>5
    <3> QED
      BY <3>1, CarryHalted
  <2> QED
    BY <2>1, <2>2, Carry2 DEF dma0_deinit
<1>11. Carries(<<Call("armed", FALSE)>>, x, x)
  BY <1>5, CarryElse, UntouchingNames DEF UntouchingName
<1> HIDE DEF a, b
<1>12. Carries(a \o b \o dma0_deinit \o <<Call("armed", FALSE)>>, w, x)
  BY <1>8, <1>9, <1>10, <1>11, CarryJoin
<1> QED
  BY <1>1, <1>4, <1>6, <1>7, <1>12, InsteadKept DEF a, b, c, z

(* The calls of the capture that change nothing themselves.                *)
MacroCall == capture_init \/ core_down \/ capture_start \/ restart
LEMMA MacroIs ==
  ASSUME NEW y, Onward(y), Shapes, MacroCall
  PROVE  Shapes' /\ y \in SUBSET Facts /\ Known(y) /\ \A x : x \subseteq y => Known(x)'
<1>1. Same /\ Shapes'
  BY BoardSame DEF MacroCall, capture_init, core_down, capture_start, restart
<1>2. y \in SUBSET Facts /\ Known(y)
  BY DEF Onward
<1> QED
  BY <1>1, <1>2, SameKnown, KnownLess

(* capture_init() arms the pairs of a stream that is being set up;         *)
LEMMA InitKept ==
  ASSUME NEW y, Onward(y), Shapes, capture_init PROVE OutlineInv'
<1> DEFINE c == Head(todo)
           z == After(c, y)
           b == y \ {"armed", "pairs"}
           pair == IF cap.chain THEN TRUE ELSE FALSE
           h == IF cap.chain THEN <<BufFirst, BufFirst + 4 * cap.half - 1>>
                ELSE <<BufFirst, BufFirst + 2 * cap.half - 1>>
           v == <<h, pair>>
<1>1. Shapes' /\ y \in SUBSET Facts /\ Known(y) /\ Known(b)'
  BY MacroIs DEF MacroCall
<1>2. c[1] = "capture_init" /\ Instead(Arm(h, pair) \o <<Call("armed", TRUE)>>)
  BY DEF capture_init, Now, dma0_pp_init, dma0_init
<1>3. z = InitDone(c, y)
  BY <1>2, AfterIs
<1>4. v[2] = pair
  OBVIOUS
<1>5. PICK x : x = z
  OBVIOUS
<1> HIDE DEF c, z, h, v
<1>6. /\ b \in SUBSET Facts /\ x \in SUBSET Facts
      /\ x \subseteq b \cup If("halted" \in b /\ pair = TRUE, {"armed"})
  <2>1. "mode" \in y => cap.chain
    BY <1>1 DEF Known, KnownCapture
  <2> QED
    BY <1>1, <1>3, <1>5, <2>1 DEF InitDone, If, Facts
<1> HIDE DEF b, pair
<1>7. b \cap {"armed", "pairs"} = {}
  BY DEF b
<1>8. Carries(<<Do("dma_off_if_idle")>>, b, b)
  <2>1. ASSUME NEW q, q[1] = "dma_off_if_idle" PROVE b \subseteq After(q, b)
    <3>1. After(q, b) = DmaIdle(q, b)
      BY <2>1, AfterIs
    <3> QED
      BY <1>7, <3>1 DEF DmaIdle, If
  <2>2. Carries(<<Call("dma_off_if_idle", 0)>>, b, b)
    BY <1>6, <2>1, CarryCall
  <2> QED
    BY <2>2 DEF Do
<1>9. Carries(<<Do("dma0_stop")>>, b, b)
  <2>1. ASSUME NEW q, q[1] = "dma0_stop" PROVE b \subseteq After(q, b)
    <3>1. After(q, b) = Dma0Stop(q, b)
      BY <2>1, AfterIs
    <3> QED
      BY <1>7, <3>1 DEF Dma0Stop
  <2>2. Carries(<<Call("dma0_stop", 0)>>, b, b)
    BY <1>6, <2>1, CarryCall
  <2> QED
    BY <2>2 DEF Do
<1>10. Carries(<<Call("dma0_window", h)>>, b, b) /\ Carries(<<Do("window_write")>>, b, b)
  BY <1>6, CarryElse, UntouchingNames DEF UntouchingName, Do
<1>11. Carries(<<Call("dma0_enable", v)>>, b, x)
  <2>1. ASSUME NEW q, q[1] = "dma0_enable", q[2] = v PROVE x \subseteq After(q, b)
    <3>1. After(q, b) = Dma0On(q, b)
      BY <2>1, AfterIs
    <3>2. q[2][2] = pair
      BY <1>4, <2>1
    <3> QED
      BY <1>6, <1>7, <3>1, <3>2 DEF Dma0On, If
  <2> QED
    BY <1>6, <2>1, CarryCall
<1>12. Carries(<<Call("armed", TRUE)>>, x, x)
  BY <1>6, CarryElse, UntouchingNames DEF UntouchingName
<1>13. Carries(<<Do("dma_off_if_idle"), Do("dma0_stop"), Call("dma0_window", h),
                 Do("window_write"), Call("dma0_enable", v)>>, b, x)
  BY <1>8, <1>9, <1>10, <1>11, Carry5
<1>14. Carries(Arm(h, pair) \o <<Call("armed", TRUE)>>, b, x)
  BY <1>12, <1>13, CarryJoin DEF Arm, v
<1> QED
  BY <1>1, <1>2, <1>5, <1>14, InsteadKept DEF c, z

(* a core goes down, or only its clock's gate;                             *)
LEMMA CoreKept ==
  ASSUME NEW y, Onward(y), Shapes, core_down PROVE OutlineInv'
<1> DEFINE c == Head(todo)
           z == After(c, y)
           x == y \ {"on"}
<1>1. Shapes' /\ y \in SUBSET Facts /\ Known(x)'
  BY MacroIs DEF MacroCall
<1>2. /\ c[1] = "core_down"
      /\ Instead(<<Do("adc_deinit")>>) \/ Instead(<<Call("clock_adc_gate", "on")>>)
  BY DEF core_down, Now
<1>3. z = x
  BY <1>2, AfterIs DEF AdcDown
<1> HIDE DEF c, z
<1>4. Carries(<<Do("adc_deinit")>>, x, x) /\ Carries(<<Call("clock_adc_gate", "on")>>, x, x)
  BY <1>1, CarryDown, CarryElse, UntouchingNames DEF UntouchingName
<1> HIDE DEF x
<1>5. PICK p : Instead(p) /\ Carries(p, x, x)
  BY <1>2, <1>4
<1>6. PICK u : u = x
  OBVIOUS
<1>7. Known(u)'
  BY <1>1, <1>6 DEF x
<1> QED
  BY <1>1, <1>3, <1>5, <1>6, <1>7, InsteadKept DEF c, z

(* bursts start, or start again.                                           *)
LEMMA BurstKept ==
  ASSUME NEW y, Onward(y), Shapes, capture_start \/ restart PROVE OutlineInv'
<1> DEFINE c == Head(todo)
           z == After(c, y)
           burst == {"halted", "quiet", "armed", "pairs", "one", "chain"}
<1>1. Shapes' /\ y \in SUBSET Facts /\ Known(y) /\ \A u : u \subseteq y => Known(u)'
  BY MacroIs DEF MacroCall
<1>2. PICK x : x = z
  OBVIOUS
<1> HIDE DEF c
<1>3. CASE capture_start
  <2>1. z = BurstOn(c, y)
    BY <1>3, AfterIs DEF capture_start, Now, c
  <2> HIDE DEF z
  <2>2. x \subseteq y /\ x \in SUBSET Facts /\ x \cap burst = {}
    BY <1>1, <1>2, <2>1 DEF BurstOn
  <2>3. Carries(<<Do("capture_init")>>, x, x)
    <3>1. ASSUME NEW q, q[1] = "capture_init" PROVE x \subseteq After(q, x)
      <4>1. After(q, x) = InitDone(q, x)
        BY <3>1, AfterIs
      <4> QED
        BY <2>2, <4>1 DEF InitDone
    <3>2. Carries(<<Call("capture_init", 0)>>, x, x)
      BY <2>2, <3>1, CarryCall
    <3> QED
      BY <3>2 DEF Do
  <2>4. Carries(<<Call("run", TRUE)>>, x, x)
    <3> DEFINE q == Call("run", TRUE)
    <3>1. q[1] = "run" /\ q[2] = TRUE /\ q[3] = 0 /\ q[4] = <<>>
      BY DEF Call, OrElse
    <3> HIDE DEF q
    <3>2. Lawful(q, x)
      BY <3>1 DEF Lawful, Everything
    <3>3. After(q, x) = Running(q, x)
      BY <3>1, AfterIs
    <3>4. x \subseteq After(q, x)
      BY <2>2, <3>3 DEF Running
    <3>5. Carries(<<q>>, x, x)
      BY <2>2, <3>1, <3>2, <3>4, CarryOne
    <3> QED
      BY <3>5 DEF q
  <2>5. Carries(<<Call("busy", TRUE)>>, x, x)
    <3>1. ASSUME NEW q, q[1] = "busy" PROVE x \subseteq After(q, x)
      <4>1. After(q, x) = BusySet(q, x)
        BY <3>1, AfterIs
      <4> QED
        BY <2>2, <4>1 DEF BusySet
    <3> QED
      BY <2>2, <3>1, CarryCall
  <2> DEFINE a == IF cap.armed THEN <<>> ELSE <<Do("capture_init")>>
  <2>6. Carries(a, x, x)
    BY <2>3, CarryNone
  <2>7. Carries(<<Call("run", TRUE), Call("busy", TRUE)>>, x, x)
    BY <2>4, <2>5, Carry2
  <2>8. Instead(a \o <<Call("run", TRUE), Call("busy", TRUE)>>)
    BY <1>3 DEF capture_start
  <2> HIDE DEF a
  <2>9. Carries(a \o <<Call("run", TRUE), Call("busy", TRUE)>>, x, x)
    BY <2>6, <2>7, CarryJoin
  <2> QED
    BY <1>1, <1>2, <2>2, <2>8, <2>9, InsteadKept DEF c, z
<1>4. CASE restart
  <2>1. z = BurstBack(c, y)
    BY <1>4, AfterIs DEF restart, Now, c
  <2> HIDE DEF z
  <2>2. /\ x \subseteq y /\ x \in SUBSET Facts
        /\ cap.was => x \cap burst = {}
    BY <1>1, <1>2, <2>1 DEF BurstBack, If, Known, KnownCapture
  <2>3. CASE cap.was
    <3>1. Instead(<<Do("capture_start")>>)
      BY <1>4, <2>3 DEF restart
    <3>2. ASSUME NEW q, q[1] = "capture_start" PROVE x \subseteq After(q, x)
      <4>1. After(q, x) = BurstOn(q, x)
        BY <3>2, AfterIs
      <4> QED
        BY <2>2, <2>3, <4>1 DEF BurstOn
    <3>3. Carries(<<Call("capture_start", 0)>>, x, x)
      BY <2>2, <3>2, CarryCall
    <3>4. Carries(<<Do("capture_start")>>, x, x)
      BY <3>3 DEF Do
    <3> QED
      BY <1>1, <1>2, <2>2, <3>1, <3>4, InsteadKept DEF c, z
  <2>4. CASE ~cap.was
    <3>1. Instead(<<>>)
      BY <1>4, <2>4 DEF restart
    <3> QED
      BY <1>1, <1>2, <2>2, <3>1, CarryNone, InsteadKept DEF c, z
  <2> QED
    BY <2>3, <2>4
<1> QED
  BY <1>3, <1>4

(* What stands without a stream.                                           *)
LEMMA NoStream ==
  ASSUME NEW y, Onward(y), Shapes, UNCHANGED <<board, stream>>, "none" \in y \/ ~stream
  PROVE  Shapes' /\ Known({"none"})' /\ Known({})'
<1>1. ~stream
  BY DEF Onward, Known, KnownSetup
<1>2. Shapes'
  BY BoardSame
<1> QED
  BY <1>1, <1>2 DEF Known, KnownSetup, KnownAdc, KnownCapture

(* routing_apply(): the route is recorded, or the boot set-up put back;    *)
LEMMA AppliedKept ==
  ASSUME NEW y, Onward(y), Shapes, route_applied PROVE OutlineInv'
<1> DEFINE c == Head(todo)
           z == After(c, y)
<1>1. /\ UNCHANGED <<board, stream, ok>> /\ Known(y)
      /\ "none" \in y /\ c[2] \in {"signal", "input"} /\ z = RouteApplied(c, y)
  BY AfterIs DEF route_applied, Now, Onward, Lawful
<1>2. Shapes' /\ Known({"none"})'
  BY <1>1, NoStream
<1>3. PICK x : x = z
  OBVIOUS
<1>4. CASE ok
  <2>1. Done /\ route' = c[2]
    BY <1>4 DEF route_applied, Arg
  <2> HIDE DEF c, z
  <2>2. KnownSetup(x)'
    BY <1>1, <1>3, <1>4, <2>1 DEF Known, KnownSetup, RouteApplied, board
  <2>3. KnownAdc(x)'
    BY <1>1, <1>3 DEF Known, KnownAdc, RouteApplied, board
  <2>4. KnownCapture(x)'
    BY <1>1, <1>3 DEF Known, KnownCapture, RouteApplied, board
  <2>5. Known(x)'
    BY <2>2, <2>3, <2>4 DEF Known
  <2> QED
    BY <1>2, <1>3, <2>1, <2>5, DoneKept DEF c, z
<1>5. CASE ~ok
  <2>1. todo' = acq_chain_restore
    BY <1>5 DEF route_applied, Leave
  <2>2. Leads(acq_chain_restore, {"none"})
    BY UndoneLeads
  <2> QED
    BY <1>2, <2>1, <2>2, OutlineNext
<1> QED
  BY <1>4, <1>5

(* the stream comes down;                                                  *)
LEMMA StreamOffKept ==
  ASSUME NEW y, Onward(y), Shapes, chain_stream_off PROVE OutlineInv'
<1> DEFINE c == Head(todo)
           z == After(c, y)
           n == {"none"}
           p == capture_chain_stop \o acq_chain_restore \o <<Call("route", "none"), Call("stream", FALSE)>>
<1>1. z = n
  BY AfterIs DEF chain_stream_off, Now, StreamDown
<1>2. Same /\ Shapes'
  BY BoardSame DEF chain_stream_off
<1>3. Known({}) /\ (~stream => Known(n))
  BY DEF Known, KnownSetup, KnownAdc, KnownCapture
<1>4. Known({})' /\ (~stream => Known(n)')
  BY <1>2, <1>3, SameKnown
<1>5. Carries(p, {}, n) /\ Carries(<<>>, n, n)
  BY OffCarries, CarryNone
<1>6. IF stream THEN Instead(p) ELSE Instead(<<>>)
  BY DEF chain_stream_off
<1> HIDE DEF c, z, p, n
<1>7. CASE stream
  BY <1>1, <1>2, <1>4, <1>5, <1>6, <1>7, InsteadKept DEF c, z
<1>8. CASE ~stream
  <2>1. PICK u : u = n
    OBVIOUS
  <2> QED
    BY <1>1, <1>2, <1>4, <1>5, <1>6, <1>8, <2>1, InsteadKept DEF c, z, n
<1> QED
  BY <1>7, <1>8

(* and goes up again, on another route.                                    *)
LEMMA StreamOnKept ==
  ASSUME NEW y, Onward(y), Shapes, stream_on_route PROVE OutlineInv'
<1> DEFINE a == Arg
<1>1. /\ "none" \in y /\ a \in {"signal", "input"} /\ Len(todo) = 1
      /\ UNCHANGED <<board, stream>> /\ todo # <<>> /\ IsSequence(todo)
  <2>1. Head(todo)[1] = "stream_on_route" /\ todo # <<>> /\ IsSequence(todo)
    BY DEF stream_on_route, Now, Onward
  <2>2. PICK S : todo \in Seq(S)
    BY <2>1 DEF IsSequence
  <2>3. Head(todo) = todo[1]
    BY <2>1, <2>2
  <2> QED
    BY <2>1, <2>3 DEF stream_on_route, Onward, Lawful, Lawfully, Arg, soft
<1>2. Shapes' /\ Known({"none"})'
  BY <1>1, NoStream
<1>3. Leave(<<>>) \/ Instead(RouteStart(a, cap.half))
  <2>1. \/ Leave(<<>>)
        \/ Instead(acq_chain_setup(IF Arg = "signal" THEN "chain" ELSE "input", Arg = "signal", cap.half)
                   \o <<Call("route_applied", Arg)>>
                   \o (IF Arg = "signal" THEN dac_triangle_start(2, ChainStart) ELSE <<>>) \o ChainStart)
    BY DEF stream_on_route, ChainStart, Undone
  <2> QED
    BY <2>1 DEF RouteStart
<1> HIDE DEF a
<1>4. CASE Leave(<<>>)
  <2>1. Leads(<<>>, {"none"})
    BY LeadsEmpty DEF Enough, Facts
  <2> QED
    BY <1>2, <1>4, <2>1, OutlineNext DEF Leave
<1>5. CASE Instead(RouteStart(a, cap.half))
  <2> DEFINE p == RouteStart(a, cap.half)
  <2>1. Leads(p, {"none"})
    BY <1>1, RouteLeads
  <2> HIDE DEF p
  <2>2. Tail(todo) = <<>>
    <3>1. PICK S : todo \in Seq(S)
      BY <1>1 DEF IsSequence
    <3>2. Tail(todo) \in Seq(S) /\ Len(Tail(todo)) = 0
      BY <1>1, <3>1
    <3> QED
      BY <3>2, EmptySeq
  <2>3. p \o <<>> = p
    <3>1. PICK S : p \in Seq(S)
      BY <2>1 DEF Leads, IsSequence
    <3> QED
      BY <3>1, ConcatEmptySeq
  <2>4. todo' = p
    BY <1>5, <2>2, <2>3 DEF Instead, Leave, p
  <2> QED
    BY <1>2, <2>1, <2>4, OutlineNext
<1> QED
  BY <1>3, <1>4, <1>5

----------------------------------------------------------------------------
(* A call of a running command.                                            *)
LEMMA CallKept ==
  ASSUME OutlineInv, SessionCall \/ (DriverCall /\ UNCHANGED soft) PROVE OutlineInv'
<1>1. todo # <<>>
  <2>1. CASE SessionCall
    BY <2>1 DEF SessionCall, Cap, capture_settle, capture_init, core_down, capture_start, restart,
                restore_dac2, set_ok, set_route, set_stream, set_gen, set_claim, ask, unask, Soft,
                route_applied, chain_stream_off, stream_on_route, siggen_stop, siggen_start, Now
  <2>2. CASE DriverCall
    BY <2>2 DEF DriverCall, Now, Adc, Switch, clock_dac_on, clock_dac_select, dac_enable,
                dac_unit_off, dac_light_off, uref_set, window_write, dma_off_if_idle, dma0_stop,
                dma0_window, dma0_enable, dma2_stop, dma2_window, dma2_enable, dma2_window_back,
                sccp1_start, sccp1_stop, sccp1_count, sccp2_start, sccp2_stop, adc_deinit,
                adc_set_input, adc_set_mode_burst, adc_set_mode_single, adc_set_irqsel,
                adc_ch0_irq, step_on, adc_reinit, adc_init, adc_set_mode_oversample,
                adc_set_trg2, adc_set_period, clock_adc_set_pll, clock_adc_set_div,
                clock_trig_on, clock_adc_gate
  <2> QED
    BY <2>1, <2>2
<1>2. PICK y : Onward(y)
  BY <1>1, OnwardIs
<1>3. Shapes
  BY DEF OutlineInv
<1>4. CASE SessionCall
  <2>1. CASE \E f \in {"armed", "chain", "run", "busy", "powered", "half"} : Cap(f)
    BY <1>2, <1>3, <2>1, SoftKept, CapKept
  <2>2. CASE capture_settle \/ capture_init \/ core_down \/ capture_start \/ restart
    BY <1>2, <1>3, <2>2, SettleKept, InitKept, CoreKept, BurstKept
  <2>3. CASE restore_dac2 \/ set_ok \/ set_route \/ set_stream \/ set_gen \/ set_claim \/ ask \/ unask
    BY <1>2, <1>3, <2>3, OutputKept, SetKept, SoftKept
  <2>4. CASE route_applied \/ chain_stream_off \/ stream_on_route \/ siggen_stop \/ siggen_start
    BY <1>2, <1>3, <2>4, AppliedKept, StreamOffKept, StreamOnKept, OutputKept
  <2> QED
    BY <1>4, <2>1, <2>2, <2>3, <2>4 DEF SessionCall
<1>5. CASE DriverCall /\ UNCHANGED soft
  <2>1. CASE NeutralCall
    BY <1>2, <1>3, <1>5, <2>1, NeutralKept
  <2>2. CASE dma2_window_back
    BY <1>2, <1>3, <1>5, <2>2, OutputKept
  <2>3. CASE adc_deinit \/ adc_set_mode_burst \/ adc_set_mode_single \/ adc_set_mode_oversample
             \/ adc_set_irqsel \/ adc_init \/ adc_reinit \/ clock_adc_set_pll \/ clock_trig_on
    BY <1>2, <1>3, <1>5, <2>3, AdcKept, AdcInitKept, SwitchKept
  <2>4. CASE sccp1_start \/ sccp1_stop \/ dma_off_if_idle \/ dma0_stop \/ dma0_enable
    BY <1>2, <1>3, <1>5, <2>4, TimerKept, DmaKept
  <2> QED
    BY <1>5, <2>1, <2>2, <2>3, <2>4 DEF DriverCall, NeutralCall
<1> QED
  BY <1>4, <1>5

(* A command that begins.                                                  *)
LEMMA TypedKept ==
  ASSUME OutlineInv, NEW p, Type(p),
         \A x \in SUBSET Facts : Enough(x) => Leads(p, x)
  PROVE  OutlineInv'
<1>1. PICK x : Known(x) /\ Leads(<<>>, x) /\ Shapes
  BY DEF OutlineInv, Type, Begin, Rest
<1>2. Enough(x)
  BY <1>1, LeadsEmpty
<1>3. PICK y : y = x \cap Facts
  OBVIOUS
<1>4. Enough(y) /\ y \in SUBSET Facts /\ Known(y)
  BY <1>1, <1>2, <1>3, KnownLess DEF Enough, Facts
<1>5. Known(y)' /\ Shapes'
  BY <1>1, <1>4, BoardSame, SameKnown DEF Type
<1>6. Leads(todo', y)
  BY <1>4 DEF Type, Begin
<1> QED
  BY <1>5, <1>6, OutlineNext

LEMMA OneLeads ==
  ASSUME NEW f, NEW v, f \in {"stream_off", "stream_on_route"},
         NEW x \in SUBSET Facts, f = "stream_on_route" => "none" \in x /\ v \in {"signal", "input"}
  PROVE  Leads(<<Call(f, v)>>, x)
<1> DEFINE c == Call(f, v)
<1>1. c[1] = f /\ c[2] = v /\ c[3] = 0 /\ c[4] = <<>>
  BY CallIs
<1> HIDE DEF c
<1>2. Lawful(c, x)
  BY <1>1 DEF Lawful, Everything
<1>3. After(c, x) = {"none"}
  BY <1>1, AfterIs DEF StreamDown
<1>4. Leads(<<>>, {"none"})
  BY LeadsEmpty DEF Enough, Facts
<1>5. Leads(Push(c, <<>>), x)
  <2> DEFINE t == <<>>
  <2>1. Leads(t, After(c, x)) /\ t = <<>>
    BY <1>3, <1>4
  <2> HIDE DEF t
  <2>2. Leads(Push(c, t), x)
    BY <1>1, <1>2, <2>1, LeadsPush
  <2> QED
    BY <2>1, <2>2
<1>6. Push(c, <<>>) = <<c>>
  <2>1. <<c>> \in Seq({c})
    OBVIOUS
  <2> QED
    BY <2>1, ConcatEmptySeq DEF Push
<1> QED
  BY <1>5, <1>6 DEF c

LEMMA StreamOnLeads ==
  ASSUME NEW a \in {"signal", "input"}, NEW x \in SUBSET Facts
  PROVE  Leads(<<Do("stream_off"), Call("stream_on_route", a)>>, x)
<1>1. Leads(<<Call("stream_on_route", a)>>, {"none"})
  BY OneLeads DEF Facts
<1>2. Carries(<<Call("stream_off", 0)>>, x, {"none"})
  <2>1. \A c : c[1] = "stream_off" => {"none"} \subseteq After(c, x)
    BY AfterIs DEF StreamDown
  <2> QED
    BY <2>1, CarryCall
<1>3. Leads(<<Do("stream_off")>> \o <<Call("stream_on_route", a)>>, x)
  BY <1>1, <1>2 DEF Carries, Do
<1> QED
  BY <1>3, InRow2

LEMMA CommandKept == ASSUME OutlineInv, Command PROVE OutlineInv'
<1>1. ASSUME NEW u, Type(siggen_release_dac(u) \o dac_triangle_start(u, <<>>) \o <<Call("ask", u)>>)
      PROVE  OutlineInv'
  <2>1. ASSUME NEW x \in SUBSET Facts, Enough(x)
        PROVE  Leads(siggen_release_dac(u) \o dac_triangle_start(u, <<>>) \o <<Call("ask", u)>>, x)
    <3>1. Carries(siggen_release_dac(u), x, x) /\ Carries(<<Call("ask", u)>>, x, x)
      BY OutputsCarry DEF siggen_release_dac
    <3>2. Carries(dac_triangle_start(u, <<>>), x, x)
      BY <2>1, StartCarry DEF dac_triangle_start
    <3>3. Carries(siggen_release_dac(u) \o dac_triangle_start(u, <<>>) \o <<Call("ask", u)>>, x, x)
      BY <3>1, <3>2, CarryJoin
    <3> QED
      BY <2>1, <3>3, CarriesOut
  <2> QED
    BY <1>1, <2>1, TypedKept
<1>2. ASSUME NEW u, Type(siggen_release_dac(u) \o dac_off(u) \o <<Call("unask", u)>>)
      PROVE  OutlineInv'
  <2>1. ASSUME NEW x \in SUBSET Facts, Enough(x)
        PROVE  Leads(siggen_release_dac(u) \o dac_off(u) \o <<Call("unask", u)>>, x)
    <3>1. /\ Carries(siggen_release_dac(u), x, x) /\ Carries(<<Call("unask", u)>>, x, x)
          /\ Carries(dac_off(u), x, x)
      BY OutputsCarry DEF siggen_release_dac
    <3>2. Carries(siggen_release_dac(u) \o dac_off(u) \o <<Call("unask", u)>>, x, x)
      BY <3>1, CarryJoin
    <3> QED
      BY <2>1, <3>2, CarriesOut
  <2> QED
    BY <1>2, <2>1, TypedKept
<1>3. ASSUME NEW v, Type(<<Do("siggen_stop"), Call("siggen_start", v)>>) PROVE OutlineInv'
  <2>1. ASSUME NEW x \in SUBSET Facts, Enough(x)
        PROVE  Leads(<<Do("siggen_stop"), Call("siggen_start", v)>>, x)
    <3>1. Carries(<<Do("siggen_stop")>>, x, x)
      BY OutputsCarry
    <3>2. Carries(<<Call("siggen_start", v)>>, x, x)
      <4> DEFINE c == Call("siggen_start", v)
      <4>1. c[1] = "siggen_start" /\ c[3] = 0 /\ c[4] = <<>>
        BY CallIs
      <4> HIDE DEF c
      <4>2. Lawful(c, x)
        BY <2>1, <4>1 DEF Lawful, Everything
      <4>3. After(c, x) = x
        BY <4>1, AfterElse DEF Touching, SetupCalls, AdcCalls, CaptureCalls
      <4>4. Carries(<<c>>, x, x)
        BY <4>1, <4>2, <4>3, CarryOne
      <4> QED
        BY <4>4 DEF c
    <3>3. Carries(<<Do("siggen_stop"), Call("siggen_start", v)>>, x, x)
      BY <3>1, <3>2, Carry2
    <3> QED
      BY <2>1, <3>3, CarriesOut
  <2> QED
    BY <1>3, <2>1, TypedKept
<1>4. ASSUME Type(<<Do("siggen_stop")>>) PROVE OutlineInv'
  <2>1. \A x \in SUBSET Facts : Enough(x) => Leads(<<Do("siggen_stop")>>, x)
    BY OutputsCarry, CarriesOut
  <2> QED
    BY <1>4, <2>1, TypedKept
<1>5. ASSUME NEW a \in {"signal", "input"}, Type(<<Do("stream_off"), Call("stream_on_route", a)>>)
      PROVE  OutlineInv'
  BY <1>5, StreamOnLeads, TypedKept
<1>6. ASSUME Type(<<Do("stream_off")>>) PROVE OutlineInv'
  <2>1. \A x \in SUBSET Facts : Leads(<<Do("stream_off")>>, x)
    BY OneLeads DEF Do
  <2> QED
    BY <1>6, <2>1, TypedKept
<1>7. CASE Buf
  <2>1. PICK h : ~cap.run /\ Type(<<Do("settle"), Call("half", h)>>)
    BY <1>7 DEF Buf
  <2>2. PICK x : Known(x) /\ Leads(<<>>, x) /\ Shapes
    BY <2>1 DEF OutlineInv, Type, Begin, Rest
  <2>3. Enough(x)
    BY <2>2, LeadsEmpty
  <2>4. PICK y : y = ((x \cap Facts) \ {"armed", "mode", "was"}) \cup {"halted"}
    OBVIOUS
  <2>5. Enough(y) /\ y \in SUBSET Facts
    BY <2>3, <2>4 DEF Enough, Facts
  <2>6. Known(y)
    BY <2>1, <2>2, <2>4 DEF Known, KnownSetup, KnownAdc, KnownCapture
  <2>7. Known(y)' /\ Shapes'
    BY <2>1, <2>2, <2>6, BoardSame, SameKnown DEF Type
  <2>8. Leads(<<Do("settle"), Call("half", h)>>, y)
    <3> DEFINE w == IF "quiet" \in y THEN y ELSE {"none"}
    <3>1. w \in SUBSET Facts /\ Enough(w)
      BY <2>5 DEF Enough, Facts
    <3>2. \/ "quiet" \in y /\ y \cap {"armed", "mode", "was"} = {} /\ w \subseteq y
          \/ w \subseteq {"halted", "quiet"} \cup (y \ {"armed", "mode", "was", "on"})
      BY <2>4, <2>5 DEF Enough
    <3> HIDE DEF w
    <3>3. Carries(<<Do("settle")>>, y, w)
      BY <2>5, <3>2, CarrySettle
    <3>4. Carries(<<Call("half", h)>>, w, w)
      BY <3>1, CarryElse, UntouchingNames DEF UntouchingName
    <3>5. Carries(<<Do("settle"), Call("half", h)>>, y, w)
      BY <3>3, <3>4, Carry2
    <3> QED
      BY <3>1, <3>5, CarriesOut
  <2>9. todo' = <<Do("settle"), Call("half", h)>>
    BY <2>1 DEF Type, Begin
  <2> QED
    BY <2>7, <2>8, <2>9, OutlineNext
<1>8. CASE DacOn
  BY <1>1, <1>8 DEF DacOn
<1>9. CASE DacOff
  BY <1>2, <1>9 DEF DacOff
<1>10. CASE SiggenOn
  BY <1>3, <1>10 DEF SiggenOn
<1>11. CASE StreamOn \/ StreamOnInput
  BY <1>5, <1>11 DEF StreamOn, StreamOnInput
<1>12. CASE SiggenOff \/ StreamOff \/ StreamGrab
  BY <1>4, <1>6, <1>12 DEF SiggenOff, StreamOff, StreamGrab
<1> QED
  BY <1>7, <1>8, <1>9, <1>10, <1>11, <1>12 DEF Command

(* The rest of every command has an outline.                               *)
THEOREM SessionOutline == SessionSpec => []OutlineInv
<1>1. SessionInit => OutlineInv
  <2> SUFFICES ASSUME SessionInit PROVE OutlineInv
    OBVIOUS
  <2>1. Shapes
    BY DEF SessionInit, Shapes
  <2>2. Known({"none"})
    BY DEF SessionInit, Known, KnownSetup, KnownAdc, KnownCapture
  <2>3. Leads(todo, {"none"})
    BY LeadsEmpty DEF SessionInit, Enough, Facts
  <2> QED
    BY <2>1, <2>2, <2>3 DEF OutlineInv
<1>2. OutlineInv /\ [SessionNext]_vars => OutlineInv'
  <2> SUFFICES ASSUME OutlineInv, [SessionNext]_vars PROVE OutlineInv'
    OBVIOUS
  <2>1. CASE SessionNext
    BY <2>1, CallKept, CommandKept, BrakeKept DEF SessionNext
  <2>2. CASE UNCHANGED vars
    <3>1. PICK x : Known(x) /\ Leads(todo, x) /\ Shapes
      BY DEF OutlineInv
    <3>2. Known(x)' /\ Shapes' /\ todo' = todo
      BY <2>2, <3>1, BoardSame, SameKnown DEF vars
    <3> QED
      BY <3>1, <3>2, OutlineNext
  <2> QED
    BY <2>1, <2>2
<1> QED
  BY <1>1, <1>2, PTL DEF SessionSpec

(* A standing stream converts its route's input once per trigger on the    *)
(* chain's clocks into the two pairs, or the brake has stopped it and its  *)
(* DMA channels are off: whatever was typed, failed or braked before       *)
(* (acquisition.c, stream_on_route()).                                     *)
THEOREM StreamStandsAsSetUp == SessionSpec => []StreamAsSetUp
<1>1. OutlineInv => StreamAsSetUp
  <2> SUFFICES ASSUME OutlineInv PROVE StreamAsSetUp
    OBVIOUS
  <2>1. CASE Rest /\ stream
    <3>1. PICK x : Known(x) /\ Leads(<<>>, x)
      BY <2>1 DEF OutlineInv, Rest
    <3>2. Enough(x) /\ "none" \notin x
      BY <2>1, <3>1, LeadsEmpty DEF Known, KnownSetup
    <3>3. /\ {"ok", "pll", "trig", "single", "irqsel", "on", "quiet", "chain", "one", "pairs"} \subseteq x
          /\ {"signal", "at_chain"} \subseteq x \/ {"input", "at_input"} \subseteq x
      BY <3>2 DEF Enough
    <3>4. /\ clk.pll = "chain" /\ clk.trig = "on"
          /\ adc.mode = "single" /\ adc.trg1 = "sccp1" /\ adc.irqsel = 0 /\ adc.on = "on"
      BY <3>1, <3>3 DEF Known, KnownSetup, KnownAdc
    <3>5. IF cap.run THEN cap.chain /\ sccp.one /\ dma.on /\ dma.ch0 /\ dma.pair ELSE ~dma.ch0
      BY <3>1, <3>3 DEF Known, KnownCapture
    <3>6. \/ route = "signal" /\ adc.core = "chain"
          \/ route = "input" /\ adc.core = "input"
      BY <3>1, <3>3 DEF Known, KnownSetup, KnownAdc
    <3> QED
      BY <3>4, <3>5, <3>6 DEF StreamAsSetUp
  <2>2. CASE ~(Rest /\ stream)
    BY <2>2 DEF StreamAsSetUp
  <2> QED
    BY <2>1, <2>2
<1> QED
  BY <1>1, SessionOutline, PTL
=============================================================================
