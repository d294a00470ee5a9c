--------------------------- MODULE Parts_proofs ----------------------------
(***************************************************************************)
(* The parts that stand by themselves, for any value of their constants.   *)
(*                                                                         *)
(*  Routing  no ADC core and no DAC ever has two owners, and no resource   *)
(*           is promised twice: any package and limits, any table size,    *)
(*           any routes asked for, any plays of the generator.             *)
(*  SigProc  no filter and no resonator goes on from a state that is not   *)
(*           that of the block directly before, and the counter counts the *)
(*           impacts of its rule and no other: any filters, magnitudes and *)
(*           thresholds, any number of blocks, streams and commands.       *)
(*  Boot     what a start tells of the run before is what happened to it:  *)
(*           any number of starts, crashes, traps and chain tests.         *)
(*  Clock    the rate "rate" tells is the one the registers give, and the  *)
(*           nearest there is: any wishes, any commands in between.        *)
(***************************************************************************)
EXTENDS Routing, SigProc, Boot, Clock, FiniteSetTheorems, WellFoundedInduction, TLAPS

RoutingTypeOK == routes \in Seq(Route) /\ claimed \subseteq Play

(* The table is empty at boot.                                             *)
LEMMA RoutingInitial == RoutingInit => RoutingTypeOK /\ OneOwner
  BY DEF RoutingInit, RoutingTypeOK, OneOwner

(* A route that passes route_check() may be added to the table.            *)
LEMMA AddKeepsOwners ==
  ASSUME RoutingTypeOK, OneOwner, NEW r \in Paths,
         route_check(routes, claimed, r), route_record(r)
  PROVE  RoutingTypeOK' /\ OneOwner'
<1>1. r \in Route /\ routes' = Append(routes, r) /\ claimed' = claimed
  BY RoutingInputs DEF route_record
<1>2. RoutingTypeOK'
  BY <1>1 DEF RoutingTypeOK
<1>3. /\ routes \in Seq(Route) /\ Len(routes') = Len(routes) + 1
      /\ \A i \in DOMAIN routes : routes'[i] = routes[i]
      /\ routes'[Len(routes) + 1] = r
      /\ DOMAIN routes' = DOMAIN routes \cup {Len(routes) + 1}
      /\ Len(routes) + 1 \notin DOMAIN routes
  BY <1>1 DEF RoutingTypeOK
<1>4. /\ r.core # CORE_NONE => \A i \in DOMAIN routes : routes[i].core # r.core
      /\ \A p \in claimed : ~uses_dac(r, p.dac)
  BY DEF route_check, core_in_use
<1>5. \A i, j \in DOMAIN routes' : routes'[i].core = routes'[j].core /\ i # j
                                   => routes'[i].core = CORE_NONE
  BY <1>3, <1>4 DEF OneOwner
<1>6. \A i \in DOMAIN routes', p \in claimed' : ~uses_dac(routes'[i], p.dac)
  BY <1>1, <1>3, <1>4 DEF OneOwner
<1> QED
  BY <1>2, <1>5, <1>6 DEF OneOwner

(* routing_gen_claim() takes a DAC only if no route has it as its signal.  *)
LEMMA ClaimKeepsOwners ==
  ASSUME RoutingTypeOK, OneOwner, routing_gen_claim
  PROVE  RoutingTypeOK' /\ OneOwner'
<1>1. PICK p \in Plays : /\ routing_gen_check(routes, claimed, p)
                         /\ claimed' = {p} /\ UNCHANGED routes
  BY DEF routing_gen_claim
<1>2. \A i \in DOMAIN routes : ~uses_dac(routes[i], p.dac)
  BY <1>1 DEF routing_gen_check
<1>3. RoutingTypeOK'
  BY <1>1, RoutingInputs DEF RoutingTypeOK
<1> QED
  BY <1>1, <1>2, <1>3 DEF OneOwner

(* An ADC core is in one route only, and a DAC that the generator plays on *)
(* is the signal of no route (core_in_use(), ROUTE_ERR_DAC_BUSY).          *)
THEOREM OwnersNeverClash == RoutingSpec => []OneOwner
<1> DEFINE Inv == RoutingTypeOK /\ OneOwner
<1>1. RoutingInit => Inv
  BY RoutingInitial
<1>2. Inv /\ [RoutingNext]_routingVars => Inv'
  <2> SUFFICES ASSUME RoutingTypeOK, OneOwner, [RoutingNext]_routingVars
               PROVE  RoutingTypeOK' /\ OneOwner'
    OBVIOUS
  <2>1. CASE UNCHANGED routingVars
    BY <2>1 DEF routingVars, RoutingTypeOK, OneOwner
  <2>2. CASE routing_add
    BY <2>2, AddKeepsOwners DEF routing_add
  <2>3. CASE routing_apply
    BY <2>1, <2>3, AddKeepsOwners DEF routing_apply
  <2>4. CASE routing_clear
    BY <2>4 DEF routing_clear, RoutingTypeOK, OneOwner
  <2>5. CASE routing_gen_claim
    BY <2>5, ClaimKeepsOwners
  <2>6. CASE routing_gen_release
    BY <2>6 DEF routing_gen_release, RoutingTypeOK, OneOwner
  <2> QED
    BY <2>1, <2>2, <2>3, <2>4, <2>5, <2>6 DEF RoutingNext
<1>3. Inv => OneOwner
  OBVIOUS
<1> QED
  BY <1>1, <1>2, <1>3, PTL DEF RoutingSpec

-----------------------------------------------------------------------------
(* The least number principle, and with it induction over a finite set.    *)
LEMMA LeastNumber ==
  ASSUME NEW T \in SUBSET Nat, T # {}
  PROVE  \E x \in T : \A y \in T : x <= y
<1> DEFINE R == {ss \in Nat \X Nat : ss[1] < ss[2]}
<1>1. IsWellFoundedOn(R, Nat)
  BY NatLessThanWellFounded DEF OpToRel
<1>2. \A x, y \in Nat : <<y, x>> \in R <=> y < x
  OBVIOUS
<1> HIDE DEF R
<1>3. \E x \in T : \A y \in T : ~ (<<y, x>> \in R)
  BY <1>1, WFMin
<1>4. PICK x \in T : \A y \in T : ~ (<<y, x>> \in R)
  BY <1>3
<1>5. \A y \in T : ~(y < x)
  BY <1>2, <1>4
<1> QED
  BY <1>5

LEMMA SetInduction ==
  ASSUME NEW S, IsFiniteSet(S), NEW G, {} \in G,
         \A s \in SUBSET S : s # {} /\ (\A x \in s : s \ {x} \in G) => s \in G
  PROVE  \A s \in SUBSET S : s \in G
<1> DEFINE T == {n \in Nat : \E s \in SUBSET S : s \notin G /\ Cardinality(s) = n}
<1> SUFFICES ASSUME NEW s0 \in SUBSET S, s0 \notin G PROVE FALSE
  OBVIOUS
<1>1. \A s \in SUBSET S : IsFiniteSet(s) /\ Cardinality(s) \in Nat
  BY FS_Subset, FS_CardinalityType
<1>2. T \in SUBSET Nat /\ T # {}
  BY <1>1
<1>3. PICK n \in T : \A k \in T : n <= k
  BY <1>2, LeastNumber
<1>4. PICK s \in SUBSET S : s \notin G /\ Cardinality(s) = n
  BY <1>3
<1>5. ASSUME NEW x \in s PROVE s \ {x} \in G
  <2>1. Cardinality(s \ {x}) = n - 1
    BY <1>1, <1>4, FS_RemoveElement
  <2>2. s \ {x} \in SUBSET S /\ n \in Nat
    BY <1>3
  <2>3. n - 1 \notin T
    BY <1>3, <2>2
  <2>4. n - 1 \in Nat
    BY <1>1, <2>1, <2>2
  <2> QED
    BY <2>1, <2>2, <2>3, <2>4
<1> QED
  BY <1>4, <1>5

(* A sum over a set, one element of the set after another.                 *)
One(s) == CHOOSE x \in s : TRUE
Summing(h, S, f) ==
  f = [s \in SUBSET S |-> IF s = {} THEN 0 ELSE h[One(s)] + f[s \ {One(s)}]]
Sums(h, S, f) == IsFiniteSet(S) /\ (\A x \in S : h[x] \in Nat) /\ Summing(h, S, f)
AnyOrder(h, S, f) ==
  /\ \A s \in SUBSET S : f[s] \in Nat
  /\ \A s \in SUBSET S : \A y \in s : f[s] = h[y] + f[s \ {y}]

LEMMA SumExists ==
  ASSUME NEW S, IsFiniteSet(S), NEW h
  PROVE  \E f : Summing(h, S, f)
<1> DEFINE Small(n) == {s \in SUBSET S : Cardinality(s) <= n}
           Up(n, f) == f = [s \in Small(n) |-> IF s = {} THEN 0 ELSE h[One(s)] + f[s \ {One(s)}]]
           T == {n \in Nat : ~ \E f : Up(n, f)}
<1>1. \A s \in SUBSET S : IsFiniteSet(s) /\ Cardinality(s) \in Nat
  BY FS_Subset, FS_CardinalityType
<1>2. ASSUME NEW s \in SUBSET S, s # {}
      PROVE  /\ One(s) \in s /\ s \ {One(s)} \in SUBSET S
             /\ Cardinality(s \ {One(s)}) = Cardinality(s) - 1
  <2>1. One(s) \in s
    BY <1>2 DEF One
  <2> QED
    BY <1>1, <2>1, FS_RemoveElement
<1>3. T = {}
  <2> SUFFICES ASSUME T # {} PROVE FALSE
    OBVIOUS
  <2>1. PICK n \in T : \A k \in T : n <= k
    BY LeastNumber
  <2>2. n \in Nat /\ ~ \E f : Up(n, f)
    BY <2>1
  <2>3. CASE n = 0
    <3> DEFINE f == [s \in Small(0) |-> 0]
    <3>1. \A s \in Small(0) : s = {}
      BY <1>1, FS_EmptySet
    <3>2. Up(0, f)
      BY <3>1
    <3> QED
      BY <2>2, <2>3, <3>2
  <2>4. CASE n # 0
    <3>1. n - 1 \in Nat /\ ~(n <= n - 1)
      BY <2>2, <2>4
    <3>2. n - 1 \notin T
      <4> HIDE DEF T
      <4> QED
        BY <2>1, <3>1
    <3>5. PICK g : Up(n - 1, g)
      BY <3>1, <3>2
    <3> DEFINE f == [s \in Small(n) |-> IF s = {} THEN 0 ELSE h[One(s)] + g[s \ {One(s)}]]
    <3>3. ASSUME NEW s \in Small(n), s # {} PROVE f[s \ {One(s)}] = g[s \ {One(s)}]
      <4> DEFINE u == s \ {One(s)}
      <4>1. u \in Small(n - 1) /\ u \in Small(n)
        BY <1>1, <1>2, <2>2, <3>3
      <4>2. f[u] = IF u = {} THEN 0 ELSE h[One(u)] + g[u \ {One(u)}]
        BY <4>1
      <4>3. g[u] = IF u = {} THEN 0 ELSE h[One(u)] + g[u \ {One(u)}]
        BY <3>5, <4>1
      <4> QED
        BY <4>2, <4>3
    <3>4. Up(n, f)
      BY <3>3
    <3> QED
      BY <2>2, <3>4
  <2> QED
    BY <2>3, <2>4
<1>4. Cardinality(S) \in Nat /\ Small(Cardinality(S)) = SUBSET S
  BY <1>1, FS_Subset, FS_CardinalityType
<1>5. PICK f : Up(Cardinality(S), f)
  BY <1>3, <1>4
<1> QED
  BY <1>4, <1>5 DEF Summing

LEMMA SumSteps ==
  ASSUME NEW h, NEW S, NEW f, Sums(h, S, f)
  PROVE  AnyOrder(h, S, f)
<1>1. \A s \in SUBSET S : f[s] = IF s = {} THEN 0 ELSE h[One(s)] + f[s \ {One(s)}]
  BY DEF Sums, Summing
<1>2. \A s \in SUBSET S : s # {} => One(s) \in s /\ h[One(s)] \in Nat
  BY DEF Sums, One
<1>5. IsFiniteSet(S) /\ \A x \in S : h[x] \in Nat
  BY DEF Sums
<1>6. {} \in SUBSET S /\ f[{}] = 0
  BY <1>1
<1>3. \A s \in SUBSET S : f[s] \in Nat
  <2> DEFINE G == {s \in SUBSET S : f[s] \in Nat}
  <2>1. {} \in G
    BY <1>6
  <2>2. ASSUME NEW s \in SUBSET S, s # {}, \A x \in s : s \ {x} \in G PROVE s \in G
    <3>1. One(s) \in s /\ h[One(s)] \in Nat /\ f[s] = h[One(s)] + f[s \ {One(s)}]
      BY <1>1, <1>2, <2>2
    <3>2. f[s \ {One(s)}] \in Nat
      BY <2>2, <3>1
    <3> QED
      BY <3>1, <3>2
  <2> HIDE DEF G
  <2>3. \A s \in SUBSET S : s \in G
    BY <1>5, <2>1, <2>2, SetInduction
  <2> QED
    BY <2>3 DEF G
<1>4. \A s \in SUBSET S : \A y \in s : f[s] = h[y] + f[s \ {y}]
  <2> DEFINE G == {s \in SUBSET S : \A y \in s : f[s] = h[y] + f[s \ {y}]}
  <2>1. {} \in G
    OBVIOUS
  <2>2. ASSUME NEW s \in SUBSET S, s # {}, \A x \in s : s \ {x} \in G, NEW y \in s
        PROVE  f[s] = h[y] + f[s \ {y}]
    <3> DEFINE x == One(s)
    <3>1. x \in s /\ f[s] = h[x] + f[s \ {x}]
      BY <1>1, <1>2, <2>2
    <3> HIDE DEF x
    <3>2. CASE x = y
      BY <3>1, <3>2
    <3>3. CASE x # y
      <4>1. f[s \ {x}] = h[y] + f[(s \ {x}) \ {y}]
        BY <2>2, <3>1, <3>3
      <4>2. f[s \ {y}] = h[x] + f[(s \ {y}) \ {x}]
        BY <2>2, <3>1, <3>3
      <4>3. (s \ {x}) \ {y} = (s \ {y}) \ {x} /\ (s \ {y}) \ {x} \in SUBSET S
        OBVIOUS
      <4>4. h[x] \in Nat /\ h[y] \in Nat /\ f[(s \ {y}) \ {x}] \in Nat
        BY <1>3, <1>5, <3>1, <4>3
      <4>5. f[s] = h[x] + (h[y] + f[(s \ {y}) \ {x}])
        BY <3>1, <4>1, <4>3
      <4> QED
        BY <4>2, <4>4, <4>5
    <3> QED
      BY <3>2, <3>3
  <2>3. ASSUME NEW s \in SUBSET S, s # {}, \A x \in s : s \ {x} \in G PROVE s \in G
    BY <2>2, <2>3
  <2> HIDE DEF G
  <2>4. \A s \in SUBSET S : s \in G
    BY <1>5, <2>1, <2>3, SetInduction
  <2> QED
    BY <2>4 DEF G
<1> QED
  BY <1>3, <1>4 DEF AnyOrder

(* The sum of a sequence one longer is that of the sequence and the last.  *)
Sum(h) == FoldFunction(LAMBDA b, sum : b + sum, 0, h)

LEMMA SumIs ==
  ASSUME NEW h PROVE Sum(h) = (CHOOSE f : Summing(h, DOMAIN h, f))[DOMAIN h]
BY DEF Sum, Summing, One, FoldFunction, FoldFunctionOnSet, MapThenFoldSet

LEMMA SumOfNone ==
  ASSUME NEW h, DOMAIN h = {}
  PROVE  Sum(h) = 0
<1>1. PICK f : Summing(h, {}, f)
  BY SumExists, FS_EmptySet
<1>2. Summing(h, {}, CHOOSE g : Summing(h, {}, g))
  BY <1>1
<1> DEFINE g == CHOOSE f1 : Summing(h, {}, f1)
<1>3. Summing(h, {}, g)
  BY <1>2
<1> HIDE DEF g
<1>4. g[{}] = 0
  BY <1>3 DEF Summing
<1> QED
  BY <1>4, SumIs DEF g

LEMMA SumOfOneMore ==
  ASSUME NEW S, IsFiniteSet(S), NEW top, top \notin S,
         NEW h, DOMAIN h = S, \A i \in S : h[i] \in Nat,
         NEW k, DOMAIN k = S \cup {top}, \A i \in S : k[i] = h[i], k[top] \in Nat
  PROVE  Sum(h) \in Nat /\ Sum(k) = Sum(h) + k[top]
<1> DEFINE P == S \cup {top}
           f == CHOOSE f1 : Summing(h, S, f1)
           g == CHOOSE g1 : Summing(k, P, g1)
<1>1. IsFiniteSet(P) /\ S \subseteq P /\ P \ {top} = S /\ top \in P
  BY FS_AddElement
<1>2. \A x \in P : k[x] \in Nat
  OBVIOUS
<1>3. Sum(h) = f[S] /\ Sum(k) = g[P]
  BY SumIs
<1> HIDE DEF P
<1>4. Sums(h, S, f)
  <2>1. \E f1 : Summing(h, S, f1)
    BY SumExists
  <2>2. Summing(h, S, f)
    BY <2>1
  <2> HIDE DEF f
  <2> QED
    BY <2>2 DEF Sums
<1>5. Sums(k, P, g)
  <2>1. \E g1 : Summing(k, P, g1)
    BY <1>1, SumExists
  <2>2. Summing(k, P, g)
    BY <2>1
  <2> HIDE DEF g
  <2> QED
    BY <1>1, <1>2, <2>2 DEF Sums
<1> HIDE DEF f, g
<1>6. /\ \A s \in SUBSET S : f[s] \in Nat
      /\ \A s \in SUBSET S : \A y \in s : f[s] = h[y] + f[s \ {y}]
  <2>1. AnyOrder(h, S, f)
    BY <1>4, SumSteps
  <2> QED
    BY <2>1 DEF AnyOrder
<1>7. /\ \A s \in SUBSET P : g[s] \in Nat
      /\ \A s \in SUBSET P : \A y \in s : g[s] = k[y] + g[s \ {y}]
  <2>1. AnyOrder(k, P, g)
    BY <1>5, SumSteps
  <2> QED
    BY <2>1 DEF AnyOrder
<1>8. f[{}] = 0 /\ g[{}] = 0
  BY <1>4, <1>5 DEF Sums, Summing
<1>9. \A s \in SUBSET S : f[s] = g[s]
  <2> DEFINE G == {s \in SUBSET S : f[s] = g[s]}
  <2>1. {} \in G
    BY <1>8
  <2>2. ASSUME NEW s \in SUBSET S, s # {}, \A x \in s : s \ {x} \in G PROVE s \in G
    <3>1. PICK x \in s : TRUE
      BY <2>2
    <3>2. f[s \ {x}] = g[s \ {x}] /\ k[x] = h[x] /\ s \in SUBSET P
      BY <1>1, <2>2
    <3>3. f[s] = h[x] + f[s \ {x}] /\ x \in s
      BY <1>6, <3>1
    <3>4. g[s] = k[x] + g[s \ {x}]
      BY <1>7, <3>1, <3>2
    <3> QED
      BY <3>2, <3>3, <3>4
  <2> HIDE DEF G
  <2>3. \A s \in SUBSET S : s \in G
    BY <2>1, <2>2, SetInduction
  <2> QED
    BY <2>3 DEF G
<1>10. f[S] = g[S] /\ f[S] \in Nat
  BY <1>6, <1>9
<1>11. g[P] = k[top] + g[S]
  BY <1>1, <1>7
<1> QED
  BY <1>3, <1>10, <1>11

(* What the routes of the table use, and one route more.                   *)
Adcs   == {r \in Route : IsAdc(r)}
Tables == {r \in Route : HasTable(r)}
Pins   == {r \in Route : r.src = "DAC_PIN"}
Ints   == {r \in Route : r.src = "DAC_INT"}
Held(t, S) == Cardinality({i \in DOMAIN t : t[i] \in S})
Weights(t) == [i \in DOMAIN t |-> Bytes(t[i])]
Weight(t)  == Sum(Weights(t))
Played(g)  == SampleBytes * (IF g = {} THEN 0 ELSE (CHOOSE p \in g : TRUE).n)

LEMMA HeldIsCount ==
  ASSUME NEW t \in Seq(Route), NEW g
  PROVE  /\ count_adc_consuming(t) = Held(t, Adcs)
         /\ count_table_dacs(t, g) = Held(t, Tables) + Cardinality(g)
         /\ count_dac_pin(t, g) = Held(t, Pins) + Cardinality(g)
         /\ count_dac_int(t) = Held(t, Ints)
         /\ ram_used_bytes(t, g) = Weight(t) + Played(g)
<1>1. \A i \in DOMAIN t : t[i] \in Route
  OBVIOUS
<1>2. /\ {i \in DOMAIN t : IsAdc(t[i])} = {i \in DOMAIN t : t[i] \in Adcs}
      /\ {i \in DOMAIN t : HasTable(t[i])} = {i \in DOMAIN t : t[i] \in Tables}
      /\ {i \in DOMAIN t : t[i].src = "DAC_PIN"} = {i \in DOMAIN t : t[i] \in Pins}
      /\ {i \in DOMAIN t : t[i].src = "DAC_INT"} = {i \in DOMAIN t : t[i] \in Ints}
  BY <1>1 DEF Adcs, Tables, Pins, Ints
<1>3. /\ count_adc_consuming(t) = Held(t, Adcs)
      /\ count_table_dacs(t, g) = Held(t, Tables) + Cardinality(g)
      /\ count_dac_pin(t, g) = Held(t, Pins) + Cardinality(g)
      /\ count_dac_int(t) = Held(t, Ints)
  BY <1>2 DEF count_adc_consuming, count_table_dacs, count_dac_pin, count_dac_int, Count, Held
<1>4. ram_used_bytes(t, g) = Weight(t) + Played(g)
  BY DEF ram_used_bytes, Weight, Weights, Played, Sum
<1> QED
  BY <1>3, <1>4

LEMMA HeldOfOneMore ==
  ASSUME NEW t \in Seq(Route), NEW r \in Route, NEW S
  PROVE  /\ Held(t, S) \in Nat
         /\ Held(Append(t, r), S) = Held(t, S) + IF r \in S THEN 1 ELSE 0
<1> DEFINE u == Append(t, r)
           A == {i \in DOMAIN t : t[i] \in S}
           B == {i \in DOMAIN u : u[i] \in S}
           top == Len(t) + 1
<1>1. /\ DOMAIN u = DOMAIN t \cup {top} /\ u[top] = r /\ top \notin DOMAIN t
      /\ \A i \in DOMAIN t : u[i] = t[i]
  OBVIOUS
<1>2. IsFiniteSet(DOMAIN t) /\ A \in SUBSET DOMAIN t
  <2>1. DOMAIN t = 1 .. Len(t) /\ Len(t) \in Int /\ 1 \in Int
    OBVIOUS
  <2>2. IsFiniteSet(1 .. Len(t))
    BY <2>1, FS_Interval
  <2> QED
    BY <2>1, <2>2
<1>3. IsFiniteSet(A) /\ Cardinality(A) \in Nat
  BY <1>2, FS_Subset, FS_CardinalityType
<1>4. B = (IF r \in S THEN A \cup {top} ELSE A) /\ top \notin A
  <2> HIDE DEF u, top
  <2> QED
    BY <1>1
<1> HIDE DEF A, B, top
<1>5. Cardinality(A \cup {top}) = Cardinality(A) + 1
  BY <1>3, <1>4, FS_AddElement
<1>6. Cardinality(B) = Cardinality(A) + IF r \in S THEN 1 ELSE 0
  BY <1>3, <1>4, <1>5
<1> QED
  BY <1>3, <1>6 DEF Held, A, B

LEMMA BytesType ==
  ASSUME NEW r \in Route
  PROVE  Bytes(r) \in Nat
<1>1. ChannelBytes \in Nat /\ SampleBytes \in Nat /\ r.table_samples \in Nat
  BY RoutingLimits DEF Route
<1>2. r.table_samples * SampleBytes \in Nat
  BY <1>1
<1> QED
  BY <1>1, <1>2 DEF Bytes

LEMMA WeightOfOneMore ==
  ASSUME NEW t \in Seq(Route), NEW r \in Route
  PROVE  Weight(t) \in Nat /\ Weight(Append(t, r)) = Weight(t) + Bytes(r)
<1> DEFINE u == Append(t, r)
           top == Len(t) + 1
           S == DOMAIN t
<1>1. /\ DOMAIN u = S \cup {top} /\ u[top] = r /\ top \notin S
      /\ \A i \in S : u[i] = t[i]
  OBVIOUS
<1>2. IsFiniteSet(S) /\ \A i \in S : Bytes(t[i]) \in Nat
  <2>1. S = 1 .. Len(t) /\ Len(t) \in Int /\ 1 \in Int /\ \A i \in S : t[i] \in Route
    OBVIOUS
  <2>2. IsFiniteSet(1 .. Len(t))
    BY <2>1, FS_Interval
  <2> QED
    BY <2>1, <2>2, BytesType
<1>3. Bytes(r) \in Nat
  BY BytesType
<1> HIDE DEF u, top
<1> DEFINE h == Weights(t)
           k == Weights(u)
<1>4. DOMAIN h = S /\ \A i \in S : h[i] \in Nat
  BY <1>2 DEF Weights
<1>5. DOMAIN k = S \cup {top} /\ k[top] = Bytes(r) /\ \A i \in S : k[i] = h[i]
  BY <1>1 DEF Weights
<1> HIDE DEF h, k, S
<1>6. Sum(h) \in Nat /\ Sum(k) = Sum(h) + k[top]
  BY <1>1, <1>2, <1>3, <1>4, <1>5, SumOfOneMore
<1> QED
  BY <1>5, <1>6 DEF Weight, h, k, u

(* What the table t and the claim g are charged, as the code counts it.    *)
Charged(t, g) ==
  /\ SccpUsed(count_adc_consuming(t), count_table_dacs(t, g)) <= SccpCount
  /\ count_adc_consuming(t) + count_table_dacs(t, g) <= DmaChannels
  /\ count_dac_pin(t, g) <= DacOutputs
  /\ count_dac_int(t) <= UrefCount
  /\ ram_used_bytes(t, g) <= RamBudget
OnePlay(g) == g = {} \/ \E p \in Play : g = {p}
TableInv   == RoutingTypeOK /\ OnePlay(claimed) /\ Charged(routes, claimed)

Affords(t, c, w) ==
  /\ (IF Held(t, Adcs) > 0 THEN 1 ELSE 0) + Held(t, Tables) + c <= SccpCount
  /\ Held(t, Adcs) + Held(t, Tables) + c <= DmaChannels
  /\ Held(t, Pins) + c <= DacOutputs
  /\ Held(t, Ints) <= UrefCount
  /\ Weight(t) + w <= RamBudget

LEMMA HeldTypes ==
  ASSUME NEW t \in Seq(Route)
  PROVE  /\ Held(t, Adcs) \in Nat /\ Held(t, Tables) \in Nat /\ Held(t, Pins) \in Nat
         /\ Held(t, Ints) \in Nat /\ Weight(t) \in Nat
<1>1. PICK r \in Route : TRUE
  <2>1. [src |-> "EXT", core |-> 0, pinsel |-> 0, dac |-> 0, sink |-> "RAM", table_samples |-> 0]
        \in Route
    BY DEF Route, RouteSrc, RouteSink
  <2> QED
    BY <2>1
<1> QED
  BY <1>1, HeldOfOneMore, WeightOfOneMore

LEMMA PlayCounts ==
  ASSUME NEW g, OnePlay(g)
  PROVE  /\ Cardinality(g) \in {0, 1} /\ IsFiniteSet(g)
         /\ g = {} <=> Cardinality(g) = 0
         /\ Played(g) \in Nat
<1>0. SampleBytes \in Nat
  BY RoutingLimits
<1>1. CASE g = {}
  BY <1>0, <1>1, FS_EmptySet DEF Played
<1>2. CASE \E p \in Play : g = {p}
  <2>1. PICK p \in Play : g = {p}
    BY <1>2
  <2>2. (CHOOSE q \in g : TRUE) = p /\ g # {}
    BY <2>1
  <2>3. Played(g) = SampleBytes * p.n /\ p.n \in Nat
    BY <2>2 DEF Played, Play
  <2>4. SampleBytes * p.n \in Nat
    BY <1>0, <2>3
  <2>5. Cardinality(g) = 1 /\ IsFiniteSet(g)
    BY <2>1, FS_Singleton
  <2> QED
    BY <2>2, <2>3, <2>4, <2>5
<1> QED
  BY <1>1, <1>2 DEF OnePlay

LEMMA ChargedIsFit ==
  ASSUME NEW t \in Seq(Route), NEW g, OnePlay(g)
  PROVE  Charged(t, g) <=> Affords(t, Cardinality(g), Played(g))
<1>1. /\ count_adc_consuming(t) = Held(t, Adcs)
      /\ count_table_dacs(t, g) = Held(t, Tables) + Cardinality(g)
      /\ count_dac_pin(t, g) = Held(t, Pins) + Cardinality(g)
      /\ count_dac_int(t) = Held(t, Ints)
      /\ ram_used_bytes(t, g) = Weight(t) + Played(g)
  BY HeldIsCount
<1>2. /\ Held(t, Adcs) \in Nat /\ Held(t, Tables) \in Nat /\ Cardinality(g) \in Nat
      /\ SccpCount \in Nat /\ DmaChannels \in Nat
  BY HeldTypes, PlayCounts, RoutingLimits
<1> QED
  BY <1>1, <1>2 DEF Charged, Affords, SccpUsed

(* An empty table, or nothing played, fits where more did.                 *)
LEMMA NoneFits ==
  ASSUME NEW c \in Nat, NEW w \in Nat
  PROVE  /\ Held(<<>>, Adcs) = 0 /\ Held(<<>>, Tables) = 0 /\ Held(<<>>, Pins) = 0
         /\ Held(<<>>, Ints) = 0 /\ Weight(<<>>) = 0
         /\ \A t \in Seq(Route) : Affords(t, c, w) => Affords(t, 0, 0) /\ Affords(<<>>, c, w)
<1>1. \A S : {i \in DOMAIN <<>> : <<>>[i] \in S} = {}
  OBVIOUS
<1>2. \A S : Held(<<>>, S) = 0
  BY <1>1, FS_EmptySet DEF Held
<1>3. DOMAIN Weights(<<>>) = {}
  BY DEF Weights
<1>4. Weight(<<>>) = 0
  BY <1>3, SumOfNone DEF Weight
<1>5. ASSUME NEW t \in Seq(Route), Affords(t, c, w) PROVE Affords(t, 0, 0) /\ Affords(<<>>, c, w)
  <2>1. /\ Held(t, Adcs) \in Nat /\ Held(t, Tables) \in Nat /\ Held(t, Pins) \in Nat
        /\ Held(t, Ints) \in Nat /\ Weight(t) \in Nat
        /\ DmaChannels \in Nat /\ SccpCount \in Nat /\ DacOutputs \in Nat
        /\ UrefCount \in Nat /\ RamBudget \in Nat
    BY HeldTypes, RoutingLimits
  <2> DEFINE a == Held(t, Adcs)
             b == Held(t, Tables)
             d == Held(t, Pins)
             e == Held(t, Ints)
             v == Weight(t)
             o == IF a > 0 THEN 1 ELSE 0
  <2>2. a \in Nat /\ b \in Nat /\ d \in Nat /\ e \in Nat /\ v \in Nat /\ o \in Nat
    BY <2>1
  <2>3. /\ o + b + c <= SccpCount /\ a + b + c <= DmaChannels /\ d + c <= DacOutputs
        /\ e <= UrefCount /\ v + w <= RamBudget
    BY <1>5 DEF Affords
  <2> HIDE DEF a, b, d, e, v, o
  <2>4. /\ o + b + 0 <= SccpCount /\ a + b + 0 <= DmaChannels
        /\ d + 0 <= DacOutputs /\ v + 0 <= RamBudget
    BY <2>1, <2>2, <2>3
  <2>5. /\ 0 + 0 + c <= SccpCount /\ 0 + 0 + c <= DmaChannels /\ 0 + c <= DacOutputs
        /\ 0 <= UrefCount /\ 0 + w <= RamBudget
    BY <2>1, <2>2, <2>3
  <2>6. Affords(t, 0, 0)
    BY <2>3, <2>4 DEF Affords, a, b, d, e, v, o
  <2>7. /\ Held(<<>>, Adcs) = 0 /\ Held(<<>>, Tables) = 0 /\ Held(<<>>, Pins) = 0
        /\ Held(<<>>, Ints) = 0
    BY <1>2
  <2>8. Affords(<<>>, c, w)
    BY <1>4, <2>5, <2>7 DEF Affords
  <2> QED
    BY <2>6, <2>8
<1> QED
  BY <1>2, <1>4, <1>5

(* What route_check() lets into the table fits, beside what is played.     *)
LEMMA RouteFits ==
  ASSUME NEW t \in Seq(Route), NEW r \in Route, NEW g, OnePlay(g), Charged(t, g),
         route_check(t, g, r)
  PROVE  Charged(Append(t, r), g)
<1> DEFINE u == Append(t, r)
           c == Cardinality(g)
           w == Played(g)
<1>1. u \in Seq(Route)
  OBVIOUS
<1>2. Affords(t, c, w)
  BY ChargedIsFit
<1>3. /\ Held(u, Adcs) = Held(t, Adcs) + IF IsAdc(r) THEN 1 ELSE 0
      /\ Held(u, Tables) = Held(t, Tables) + IF HasTable(r) THEN 1 ELSE 0
      /\ Held(u, Pins) = Held(t, Pins) + IF r.src = "DAC_PIN" THEN 1 ELSE 0
      /\ Held(u, Ints) = Held(t, Ints) + IF r.src = "DAC_INT" THEN 1 ELSE 0
      /\ Weight(u) = Weight(t) + Bytes(r)
  <2>1. /\ r \in Adcs <=> IsAdc(r)
        /\ r \in Tables <=> HasTable(r)
        /\ r \in Pins <=> r.src = "DAC_PIN"
        /\ r \in Ints <=> r.src = "DAC_INT"
    BY DEF Adcs, Tables, Pins, Ints
  <2> QED
    BY <2>1, HeldOfOneMore, WeightOfOneMore
<1>4. /\ Held(t, Adcs) \in Nat /\ Held(t, Tables) \in Nat /\ Held(t, Pins) \in Nat
      /\ Held(t, Ints) \in Nat /\ Weight(t) \in Nat /\ c \in Nat /\ w \in Nat
  BY HeldTypes, PlayCounts
<1>5. /\ count_adc_consuming(t) = Held(t, Adcs)
      /\ count_table_dacs(t, g) = Held(t, Tables) + c
      /\ count_dac_pin(t, g) = Held(t, Pins) + c
      /\ count_dac_int(t) = Held(t, Ints)
      /\ ram_used_bytes(t, g) = Weight(t) + w
  BY HeldIsCount
<1>6. /\ SccpUsed(Held(u, Adcs), Held(u, Tables) + c) <= SccpCount
      /\ Held(u, Adcs) + Held(u, Tables) + c <= DmaChannels
      /\ r.src = "DAC_PIN" => Held(t, Pins) + c + 1 <= DacOutputs
      /\ r.src = "DAC_INT" => Held(t, Ints) + 1 <= UrefCount
      /\ Weight(t) + w + Bytes(r) <= RamBudget
  <2> DEFINE adc    == Held(t, Adcs) + (IF IsAdc(r) THEN 1 ELSE 0)
             tables == Held(t, Tables) + c + (IF HasTable(r) THEN 1 ELSE 0)
  <2>1. /\ SccpUsed(adc, tables) <= SccpCount /\ adc + tables <= DmaChannels
        /\ r.src = "DAC_PIN" => Held(t, Pins) + c + 1 <= DacOutputs
        /\ r.src = "DAC_INT" => Held(t, Ints) + 1 <= UrefCount
        /\ Weight(t) + w + Bytes(r) <= RamBudget
    BY <1>5 DEF route_check
  <2>2. adc = Held(u, Adcs) /\ tables = Held(u, Tables) + c
    BY <1>3, <1>4
  <2>3. Held(u, Adcs) + Held(u, Tables) + c = adc + tables
    BY <1>3, <1>4
  <2> HIDE DEF adc, tables
  <2> QED
    BY <2>1, <2>2, <2>3
<1> HIDE DEF u, c, w
<1>7. Affords(u, c, w)
  <2>1. /\ Bytes(r) \in Nat
        /\ DmaChannels \in Nat /\ SccpCount \in Nat /\ DacOutputs \in Nat
        /\ UrefCount \in Nat /\ RamBudget \in Nat
    BY BytesType, RoutingLimits
  <2>2. (IF Held(u, Adcs) > 0 THEN 1 ELSE 0) + Held(u, Tables) + c <= SccpCount
    BY <1>3, <1>4, <1>6 DEF SccpUsed
  <2>3. Held(u, Pins) + c <= DacOutputs
    <3>1. Held(t, Pins) + c <= DacOutputs
      BY <1>2 DEF Affords
    <3>2. CASE r.src = "DAC_PIN"
      <4>1. Held(u, Pins) = Held(t, Pins) + 1 /\ Held(t, Pins) + c + 1 <= DacOutputs
        BY <1>3, <1>6, <3>2
      <4> QED
        BY <1>4, <2>1, <4>1
    <3>3. CASE r.src # "DAC_PIN"
      BY <1>3, <1>4, <3>1, <3>3
    <3> QED
      BY <3>2, <3>3
  <2>4. Held(u, Ints) <= UrefCount
    <3>1. Held(t, Ints) <= UrefCount
      BY <1>2 DEF Affords
    <3> QED
      BY <1>3, <1>4, <1>6, <3>1
  <2>5. Weight(u) + w <= RamBudget
    BY <1>3, <1>4, <1>6, <2>1
  <2> QED
    BY <1>6, <2>2, <2>3, <2>4, <2>5 DEF Affords
<1> QED
  BY <1>1, <1>7, ChargedIsFit DEF u, c, w

(* What routing_gen_check() lets the generator claim fits, in place of     *)
(* what it claimed before.                                                 *)
LEMMA ClaimFits ==
  ASSUME NEW t \in Seq(Route), NEW g, OnePlay(g), Charged(t, g), NEW p \in Play,
         routing_gen_check(t, g, p)
  PROVE  OnePlay({p}) /\ Charged(t, {p})
<1> DEFINE c == Cardinality(g)
           w == Played(g)
<1>1. OnePlay({p})
  BY DEF OnePlay
<1>2. /\ Held(t, Adcs) \in Nat /\ Held(t, Tables) \in Nat /\ Held(t, Pins) \in Nat
      /\ Held(t, Ints) \in Nat /\ Weight(t) \in Nat /\ c \in Nat /\ w \in Nat
      /\ DmaChannels \in Nat /\ SccpCount \in Nat /\ DacOutputs \in Nat
      /\ UrefCount \in Nat /\ RamBudget \in Nat /\ SampleBytes \in Nat
  BY HeldTypes, PlayCounts, RoutingLimits
<1>3. /\ count_adc_consuming(t) = Held(t, Adcs)
      /\ count_table_dacs(t, g) = Held(t, Tables) + c
      /\ count_dac_pin(t, g) = Held(t, Pins) + c
      /\ count_dac_int(t) = Held(t, Ints)
      /\ ram_used_bytes(t, g) = Weight(t) + w
  BY HeldIsCount
<1>4. Affords(t, c, w)
  BY ChargedIsFit
<1>5. Cardinality({p}) = 1
  BY FS_Singleton
<1>6. Played({p}) = p.n * SampleBytes /\ p.n * SampleBytes \in Nat
  <2>1. Played({p}) = SampleBytes * p.n /\ p.n \in Nat
    BY DEF Played, Play
  <2> QED
    BY <1>2, <2>1
<1>7. /\ SccpUsed(Held(t, Adcs), Held(t, Tables) + c + 1) <= SccpCount
      /\ Held(t, Adcs) + (Held(t, Tables) + c) + 1 <= DmaChannels
      /\ Held(t, Pins) + c + 1 <= DacOutputs
      /\ Weight(t) + w + Played({p}) <= RamBudget
  BY <1>3, <1>6 DEF routing_gen_check
<1> HIDE DEF c, w
<1>8. Affords(t, 1, Played({p}))
  <2>1. Held(t, Ints) <= UrefCount
    BY <1>4 DEF Affords
  <2> DEFINE a == Held(t, Adcs)
             b == Held(t, Tables)
             d == Held(t, Pins)
             v == Weight(t)
             o == IF a > 0 THEN 1 ELSE 0
             x == Played({p})
  <2>2. a \in Nat /\ b \in Nat /\ d \in Nat /\ v \in Nat /\ o \in Nat /\ x \in Nat
    BY <1>2, <1>6
  <2>3. /\ o + (b + c + 1) <= SccpCount /\ a + (b + c) + 1 <= DmaChannels
        /\ d + c + 1 <= DacOutputs /\ v + w + x <= RamBudget
    BY <1>7 DEF SccpUsed
  <2> HIDE DEF a, b, d, v, o, x
  <2>4. /\ o + b + 1 <= SccpCount /\ a + b + 1 <= DmaChannels
        /\ d + 1 <= DacOutputs /\ v + x <= RamBudget
    BY <1>2, <2>2, <2>3
  <2> QED
    BY <2>1, <2>4 DEF Affords, a, b, d, v, o, x
<1> QED
  BY <1>1, <1>5, <1>8, ChargedIsFit

LEMMA TableInvStep ==
  ASSUME TableInv, [RoutingNext]_routingVars
  PROVE  TableInv'
<1>1. /\ routes \in Seq(Route) /\ claimed \subseteq Play
      /\ OnePlay(claimed) /\ Charged(routes, claimed)
  BY DEF TableInv, RoutingTypeOK
<1>2. Affords(routes, Cardinality(claimed), Played(claimed))
      /\ Cardinality(claimed) \in Nat /\ Played(claimed) \in Nat
  BY <1>1, ChargedIsFit, PlayCounts
<1>3. ASSUME NEW r \in Paths, route_check(routes, claimed, r), route_record(r) PROVE TableInv'
  <2>1. r \in Route /\ routes' = Append(routes, r) /\ claimed' = claimed
    BY <1>3, RoutingInputs DEF route_record
  <2>2. Charged(routes', claimed')
    BY <1>1, <1>3, <2>1, RouteFits
  <2> QED
    BY <1>1, <2>1, <2>2 DEF TableInv, RoutingTypeOK
<1>4. ASSUME UNCHANGED routingVars PROVE TableInv'
  BY <1>1, <1>4 DEF TableInv, RoutingTypeOK, routingVars
<1>5. CASE routing_add
  BY <1>3, <1>5 DEF routing_add
<1>6. CASE routing_apply
  BY <1>3, <1>4, <1>6 DEF routing_apply
<1>7. CASE routing_clear
  <2>1. routes' = <<>> /\ claimed' = claimed /\ <<>> \in Seq(Route)
    BY <1>7 DEF routing_clear
  <2>2. Affords(<<>>, Cardinality(claimed), Played(claimed))
    BY <1>1, <1>2, NoneFits
  <2>3. Charged(<<>>, claimed)
    BY <1>1, <2>1, <2>2, ChargedIsFit
  <2> QED
    BY <1>1, <2>1, <2>3 DEF TableInv, RoutingTypeOK
<1>8. CASE routing_gen_claim
  <2>1. PICK p \in Plays : routing_gen_check(routes, claimed, p) /\ claimed' = {p} /\ routes' = routes
    BY <1>8 DEF routing_gen_claim
  <2>2. p \in Play
    BY RoutingInputs
  <2>3. OnePlay({p}) /\ Charged(routes, {p})
    BY <1>1, <2>1, <2>2, ClaimFits
  <2> QED
    BY <1>1, <2>1, <2>2, <2>3 DEF TableInv, RoutingTypeOK
<1>9. CASE routing_gen_release
  <2>1. claimed' = {} /\ routes' = routes
    BY <1>9 DEF routing_gen_release
  <2>2. Affords(routes, 0, 0) /\ OnePlay({}) /\ Cardinality({}) = 0
    BY <1>1, <1>2, NoneFits, FS_EmptySet DEF OnePlay
  <2>3. Played({}) = 0
    BY RoutingLimits DEF Played
  <2>4. Charged(routes, {})
    BY <1>1, <2>2, <2>3, ChargedIsFit
  <2> QED
    BY <1>1, <2>1, <2>2, <2>4 DEF TableInv, RoutingTypeOK
<1>10. CASE UNCHANGED routingVars
  BY <1>4, <1>10
<1> QED
  BY <1>5, <1>6, <1>7, <1>8, <1>9, <1>10 DEF RoutingNext

LEMMA TableInvInit == RoutingInit => TableInv
<1> SUFFICES ASSUME RoutingInit PROVE TableInv
  OBVIOUS
<1>1. routes = <<>> /\ claimed = {} /\ <<>> \in Seq(Route)
  BY DEF RoutingInit
<1>2. OnePlay({}) /\ Cardinality({}) = 0
  BY FS_EmptySet DEF OnePlay
<1>3. Played({}) = 0
  BY RoutingLimits DEF Played
<1>4. Affords(<<>>, 0, 0)
  <2>1. /\ Held(<<>>, Adcs) = 0 /\ Held(<<>>, Tables) = 0 /\ Held(<<>>, Pins) = 0
        /\ Held(<<>>, Ints) = 0 /\ Weight(<<>>) = 0
    BY NoneFits
  <2>2. /\ DmaChannels \in Nat /\ SccpCount \in Nat /\ DacOutputs \in Nat
        /\ UrefCount \in Nat /\ RamBudget \in Nat
    BY RoutingLimits
  <2> QED
    BY <2>1, <2>2 DEF Affords
<1>5. Charged(<<>>, {})
  BY <1>1, <1>2, <1>3, <1>4, ChargedIsFit
<1> QED
  BY <1>1, <1>2, <1>5 DEF TableInv, RoutingTypeOK

(* The pieces of hardware, one by one, are as many as are charged.         *)
LEMMA TaggedCount ==
  ASSUME NEW A, IsFiniteSet(A), NEW g, OnePlay(g)
  PROVE  Cardinality({<<"route", i>> : i \in A} \cup {<<"generator", p.dac>> : p \in g})
           = Cardinality(A) + Cardinality(g)
<1> DEFINE B == {<<"route", i>> : i \in A}
           C == {<<"generator", p.dac>> : p \in g}
           f == [i \in A |-> <<"route", i>>]
<1>1. IsFiniteSet(B) /\ Cardinality(B) = Cardinality(A)
  <2>1. f \in Bijection(A, B)
    <3>1. f \in [A -> B] /\ \A i \in A : f[i] = <<"route", i>>
      OBVIOUS
    <3>2. \A i, j \in A : f[i] = f[j] => i = j
      OBVIOUS
    <3>3. \A x \in B : \E i \in A : f[i] = x
      OBVIOUS
    <3> HIDE DEF B, f
    <3> QED
      BY <3>1, <3>2, <3>3 DEF Bijection, Injection, IsInjective, Surjection
  <2>2. ExistsBijection(A, B)
    BY <2>1 DEF ExistsBijection
  <2> HIDE DEF B
  <2> QED
    BY <2>2, FS_Bijection
<1>2. IsFiniteSet(C) /\ Cardinality(C) = Cardinality(g)
  <2>1. CASE g = {}
    <3>1. C = {}
      BY <2>1
    <3> HIDE DEF C
    <3> QED
      BY <2>1, <3>1, FS_EmptySet
  <2>2. CASE \E p \in Play : g = {p}
    <3>1. PICK p \in Play : g = {p}
      BY <2>2
    <3>2. C = {<<"generator", p.dac>>}
      BY <3>1
    <3> HIDE DEF C
    <3> QED
      BY <3>1, <3>2, FS_Singleton
  <2> QED
    BY <2>1, <2>2 DEF OnePlay
<1>3. B \cap C = {}
  OBVIOUS
<1>4. Cardinality(A) \in Nat /\ Cardinality(g) \in Nat
  BY FS_CardinalityType, PlayCounts
<1> HIDE DEF B, C
<1>5. Cardinality(B \cup C) = Cardinality(B) + Cardinality(C) - Cardinality({})
  BY <1>1, <1>2, <1>3, FS_Union
<1>6. Cardinality(B \cup C) = Cardinality(A) + Cardinality(g)
  BY <1>1, <1>2, <1>4, <1>5, FS_EmptySet
<1> QED
  BY <1>6 DEF B, C

LEMMA ChargedIsEnough == TableInv => WithinLimits
<1> SUFFICES ASSUME TableInv PROVE WithinLimits
  OBVIOUS
<1> DEFINE a == Held(routes, Adcs)
           b == Held(routes, Tables)
           c == Cardinality(claimed)
           A == {i \in DOMAIN routes : IsAdc(routes[i])}
           B == {i \in DOMAIN routes : HasTable(routes[i])}
           D == {i \in DOMAIN routes : routes[i].src = "DAC_PIN"}
           E == {i \in DOMAIN routes : routes[i].src = "DAC_INT"}
<1>1. routes \in Seq(Route) /\ OnePlay(claimed) /\ Charged(routes, claimed)
  BY DEF TableInv, RoutingTypeOK
<1>2. Affords(routes, c, Played(claimed)) /\ ram_used_bytes(routes, claimed) <= RamBudget
  BY <1>1, ChargedIsFit DEF Charged
<1>3. a \in Nat /\ b \in Nat /\ c \in Nat /\ Held(routes, Pins) \in Nat
  BY <1>1, HeldTypes, PlayCounts
<1>4. Cardinality(A) = a /\ Cardinality(B) = b /\ Cardinality(D) = Held(routes, Pins)
      /\ Cardinality(E) = Held(routes, Ints)
  <2>1. \A i \in DOMAIN routes : routes[i] \in Route
    BY <1>1
  <2>2. /\ A = {i \in DOMAIN routes : routes[i] \in Adcs}
        /\ B = {i \in DOMAIN routes : routes[i] \in Tables}
        /\ D = {i \in DOMAIN routes : routes[i] \in Pins}
        /\ E = {i \in DOMAIN routes : routes[i] \in Ints}
    BY <2>1 DEF Adcs, Tables, Pins, Ints
  <2> QED
    BY <2>2 DEF Held
<1>5. IsFiniteSet(A) /\ IsFiniteSet(B) /\ IsFiniteSet(D)
  <2>1. DOMAIN routes = 1 .. Len(routes) /\ Len(routes) \in Int /\ 1 \in Int
    BY <1>1
  <2>2. IsFiniteSet(DOMAIN routes)
    BY <2>1, FS_Interval
  <2>3. A \in SUBSET DOMAIN routes /\ B \in SUBSET DOMAIN routes /\ D \in SUBSET DOMAIN routes
    OBVIOUS
  <2> QED
    BY <2>2, <2>3, FS_Subset
<1>6. A = Converting /\ (Converting = {} <=> a = 0) /\ Cardinality(Converting) = a
  <2>1. A = Converting
    BY DEF Converting
  <2> HIDE DEF A
  <2> QED
    BY <1>4, <1>5, <2>1, FS_EmptySet
<1>7. Cardinality(Playing) = b + c
  <2>1. Playing = {<<"route", i>> : i \in B} \cup {<<"generator", p.dac>> : p \in claimed}
    BY DEF Playing
  <2> HIDE DEF B
  <2> QED
    BY <1>1, <1>4, <1>5, <2>1, TaggedCount
<1>8. Cardinality(OnPin) = Held(routes, Pins) + c
  <2>1. OnPin = {<<"route", i>> : i \in D} \cup {<<"generator", p.dac>> : p \in claimed}
    BY DEF OnPin
  <2> HIDE DEF D
  <2> QED
    BY <1>1, <1>4, <1>5, <2>1, TaggedCount
<1>9. Cardinality(E) <= UrefCount
  BY <1>2, <1>4 DEF Affords
<1> HIDE DEF A, B, D, a, b, c
<1>10. /\ Cardinality(Converting) + Cardinality(Playing) <= DmaChannels
       /\ Cardinality(Playing) + (IF Converting = {} THEN 0 ELSE 1) <= SccpCount
       /\ Cardinality(OnPin) <= DacOutputs
  <2>1. /\ (IF a > 0 THEN 1 ELSE 0) + b + c <= SccpCount
        /\ a + b + c <= DmaChannels
        /\ Held(routes, Pins) + c <= DacOutputs
        /\ SccpCount \in Nat /\ DmaChannels \in Nat
    BY <1>2, RoutingLimits DEF Affords, a, b
  <2> QED
    BY <1>3, <1>6, <1>7, <1>8, <2>1
<1> QED
  BY <1>2, <1>9, <1>10 DEF WithinLimits

(* Every route and the claim get hardware of their own, however they came: *)
(* channels, timers, output pins, the reference line and room in RAM are   *)
(* never promised twice, for either package's limits and any routes and    *)
(* plays (route_check() and routing_gen_check()).                          *)
THEOREM NothingPromisedTwice == RoutingSpec => []WithinLimits
<1>1. TableInv /\ [RoutingNext]_routingVars => TableInv'
  BY TableInvStep
<1> QED
  BY <1>1, TableInvInit, ChargedIsEnough, PTL DEF RoutingSpec

-----------------------------------------------------------------------------
Counter == [on : BOOLEAN, dirty : BOOLEAN, reset : BOOLEAN, fs : BOOLEAN, ready : BOOLEAN,
            thr : Thresholds, thr2 : Nat, q : Nat,
            at : {Never, Settled} \cup ({"cnt"} \X Nat \X Nat),
            armed : BOOLEAN, pk : Nat, tr : Nat, count : Nat, missed0 : Int, missed : Int]

(* What the continuity rests on: the numbers' type, the filter's state is  *)
(* that of the block processed last, of the filter now chosen, unless it   *)
(* is marked to start afresh; so is the counter's.                         *)
StateTypeOK ==
  /\ seq \in Nat /\ sp_last_seq \in Nat /\ stream \in Nat /\ missed \in Nat
  /\ filter \in Filters \cup {"off"} /\ restart \in BOOLEAN
  /\ sp_fresh \in BOOLEAN /\ sigproc_on \in BOOLEAN
  /\ cn \in Counter
Carried == ~sp_fresh
FilterState  == Carried /\ filter # "off" /\ ~restart => st = <<filter, stream, sp_last_seq>>
CounterState == Carried /\ cn.on /\ ~cn.dirty /\ cn.ready => cn.at = <<"cnt", stream, sp_last_seq>>
Continuity   == StateTypeOK /\ FilterState /\ CounterState

(* The counter's type is kept by each of its parts. *)
LEMMA EvaluateType ==
  ASSUME NEW c \in Counter, NEW m \in Nat
  PROVE  /\ cnt_evaluate(c, m) \in Counter
         /\ cnt_evaluate(c, m).at = c.at
         /\ cnt_evaluate(c, m).on <=> c.on
         /\ cnt_evaluate(c, m).ready <=> c.ready
         /\ cnt_evaluate(c, m).dirty <=> c.dirty
<1> DEFINE tr == IF m < c.tr THEN m ELSE c.tr
           pk == IF m > c.pk THEN m ELSE c.pk
           d  == [c EXCEPT !.q = m]
<1>1. tr \in Nat /\ pk \in Nat /\ d \in Counter
      /\ d.at = c.at /\ (d.on <=> c.on) /\ (d.ready <=> c.ready) /\ (d.dirty <=> c.dirty)
  BY DEF Counter
<1>2. \/ cnt_evaluate(c, m) = [d EXCEPT !.count = @ + 1, !.armed = FALSE, !.pk = m, !.tr = tr]
      \/ cnt_evaluate(c, m) = [d EXCEPT !.tr = tr]
      \/ cnt_evaluate(c, m) = [d EXCEPT !.armed = TRUE, !.tr = m, !.pk = pk]
      \/ cnt_evaluate(c, m) = [d EXCEPT !.pk = pk]
  BY DEF cnt_evaluate
<1> HIDE DEF tr, pk, d
<1>3. CASE cnt_evaluate(c, m) = [d EXCEPT !.count = @ + 1, !.armed = FALSE, !.pk = m, !.tr = tr]
  <2>1. d.count + 1 \in Nat
    BY <1>1 DEF Counter
  <2> DEFINE e == [d EXCEPT !.count = d.count + 1, !.armed = FALSE, !.pk = m, !.tr = tr]
  <2>2. e \in Counter
    BY <1>1, <2>1 DEF Counter
  <2>3. e.at = d.at /\ e.on = d.on
    BY <1>1 DEF Counter
  <2>4. e.ready = d.ready /\ e.dirty = d.dirty
    BY <1>1 DEF Counter
  <2>5. cnt_evaluate(c, m) = e
    BY <1>3
  <2> HIDE DEF e
  <2> QED
    BY <1>1, <2>2, <2>3, <2>4, <2>5
<1>4. CASE cnt_evaluate(c, m) = [d EXCEPT !.tr = tr]
  BY <1>1, <1>4 DEF Counter
<1>5. CASE cnt_evaluate(c, m) = [d EXCEPT !.armed = TRUE, !.tr = m, !.pk = pk]
  BY <1>1, <1>5 DEF Counter
<1>6. CASE cnt_evaluate(c, m) = [d EXCEPT !.pk = pk]
  BY <1>1, <1>6 DEF Counter
<1> QED
  BY <1>2, <1>3, <1>4, <1>5, <1>6

(* A new block's reconfiguration keeps the counter's type and its place.      *)
LEMMA ConfiguredType ==
  ASSUME NEW c \in Counter, NEW info, info.missed \in Nat
  PROVE  /\ Configured(c, info) \in Counter
         /\ Configured(c, info).at = c.at
         /\ Configured(c, info).on <=> c.on
         /\ ~Configured(c, info).dirty
         /\ ~c.dirty => (Configured(c, info).ready <=> c.ready)
<1> DEFINE s == IF c.dirty THEN cnt_setup(c) ELSE c
<1>1. /\ s \in Counter /\ s.at = c.at /\ (s.on <=> c.on) /\ ~s.dirty
      /\ ~c.dirty => (s.ready <=> c.ready)
  <2>1. CASE ~c.dirty
    BY <2>1 DEF Counter
  <2>2. CASE c.dirty /\ c.fs
    <3>1. s = [c EXCEPT !.dirty = FALSE, !.ready = TRUE, !.thr2 = c.thr, !.q = 0]
      BY <2>2 DEF cnt_setup
    <3>2. c.thr \in Nat
      BY SigProcAssumption DEF Counter
    <3> HIDE DEF s
    <3> QED
      BY <2>2, <3>1, <3>2 DEF Counter
  <2>3. CASE c.dirty /\ ~c.fs
    <3>1. s = [c EXCEPT !.dirty = FALSE, !.ready = FALSE]
      BY <2>3 DEF cnt_setup
    <3> HIDE DEF s
    <3> QED
      BY <2>3, <3>1 DEF Counter
  <2> QED
    BY <2>1, <2>2, <2>3
<1> HIDE DEF s
<1>2. CASE s.reset
  <2>1. cnt_reset(s, info) =
          [s EXCEPT !.reset = FALSE, !.count = 0, !.missed0 = info.missed, !.armed = FALSE,
                    !.pk = IF s.ready THEN s.q ELSE 0]
    BY DEF cnt_reset
  <2>2. (IF s.ready THEN s.q ELSE 0) \in Nat
    BY <1>1 DEF Counter
  <2>3. Configured(c, info) = cnt_reset(s, info)
    BY <1>2 DEF Configured, s
  <2> DEFINE pk == IF s.ready THEN s.q ELSE 0
             lost == info.missed
             e  == [s EXCEPT !.reset = FALSE, !.count = 0, !.missed0 = lost,
                             !.armed = FALSE, !.pk = pk]
  <2> HIDE DEF pk, lost
  <2>4. pk \in Nat /\ lost \in Int
    BY <2>2 DEF pk, lost
  <2>5. e \in Counter
    BY <1>1, <2>4 DEF Counter
  <2>6. e.at = s.at /\ e.on = s.on
    BY <1>1 DEF Counter
  <2>7. e.ready = s.ready /\ e.dirty = s.dirty
    BY <1>1 DEF Counter
  <2>8. Configured(c, info) = e
    BY <2>1, <2>3 DEF pk, lost
  <2> HIDE DEF e
  <2> QED
    BY <1>1, <2>5, <2>6, <2>7, <2>8
<1>3. CASE ~s.reset
  BY <1>1, <1>3 DEF Configured, s
<1> QED
  BY <1>2, <1>3

(* A block takes the counter from its state to the state of this block.    *)
LEMMA CounterBlock ==
  ASSUME Continuity, NEW m \in Nat, NEW info, info.missed \in Nat, info.seq \in Nat,
         info.gap \in BOOLEAN, ~info.gap => Carried /\ info.seq = sp_last_seq + 1,
         stream' = stream, seq' = info.seq, sigproc_app_block(m, info)
  PROVE  /\ cn' \in Counter
         /\ cn'.on /\ ~cn'.dirty /\ cn'.ready => cn'.at = <<"cnt", stream, info.seq>>
         /\ Follows(resonated, "cnt")'
<1>1. CASE ~cn.on
  <2>1. cn' = cn /\ resonated' = Unused
    BY <1>1 DEF sigproc_app_block
  <2> QED
    BY <1>1, <2>1 DEF Continuity, StateTypeOK, Follows
<1>2. CASE cn.on
  <2> DEFINE c == Configured(cn, info)
             r == IF cn.dirty \/ info.gap THEN [c EXCEPT !.q = 0, !.at = Settled] ELSE c
             v == cnt_evaluate(r, m)
             now == <<"cnt", stream, info.seq>>
             lost == info.missed - c.missed0
             e == [v EXCEPT !.missed = lost, !.at = now]
  <2>1. cn' = (IF c.ready THEN e ELSE c) /\ resonated' = IF c.ready THEN r.at ELSE Unused
    BY <1>2 DEF sigproc_app_block, cnt_block
  <2>2. cn \in Counter /\ stream \in Nat
    BY DEF Continuity, StateTypeOK
  <2>3. /\ c \in Counter /\ c.at = cn.at /\ ~c.dirty
        /\ ~cn.dirty => (c.ready <=> cn.ready)
    BY <2>2, ConfiguredType
  <2> HIDE DEF c
  <2>4. /\ r \in Counter
        /\ r.at = IF cn.dirty \/ info.gap THEN Settled ELSE c.at
    <3>1. CASE cn.dirty \/ info.gap
      BY <2>3, <3>1 DEF Counter
    <3>2. CASE ~(cn.dirty \/ info.gap)
      BY <2>3, <3>2
    <3> QED
      BY <3>1, <3>2
  <2> HIDE DEF r
  <2>5. v \in Counter
    BY <2>4, EvaluateType
  <2> HIDE DEF v
  <2>6. lost \in Int
    BY <2>3 DEF Counter
  <2>7. now \in {"cnt"} \X Nat \X Nat
    BY <2>2
  <2> HIDE DEF lost, now
  <2>8. e \in Counter /\ e.at = now
    BY <2>5, <2>6, <2>7 DEF Counter
  <2> HIDE DEF e
  <2>9. cn' \in Counter /\ (cn'.ready => cn'.at = now)
    BY <2>1, <2>3, <2>8
  <2>10. Follows(resonated, "cnt")'
    <3>1. CASE ~c.ready
      BY <2>1, <3>1 DEF Follows
    <3>2. CASE c.ready /\ (cn.dirty \/ info.gap)
      BY <2>1, <2>4, <3>2 DEF Follows
    <3>3. CASE c.ready /\ ~(cn.dirty \/ info.gap)
      <4>1. resonated' = cn.at /\ cn.ready /\ info.seq = sp_last_seq + 1 /\ sp_last_seq \in Nat
        BY <2>1, <2>3, <2>4, <3>3 DEF Continuity, StateTypeOK
      <4>2. cn.at = <<"cnt", stream, sp_last_seq>>
        BY <1>2, <3>3, <4>1 DEF Continuity, CounterState
      <4> QED
        BY <4>1, <4>2 DEF Follows
    <3> QED
      BY <3>1, <3>2, <3>3
  <2> QED
    BY <2>9, <2>10 DEF now
<1> QED
  BY <1>1, <1>2

(* A completed half, or the last of some.                                  *)
LEMMA BlockContinues ==
  ASSUME Continuity, ServiceBlock
  PROVE  Continuity' /\ Follows(filtered, filter)' /\ Follows(resonated, "cnt")'
<1>1. PICK k \in 1..2, m \in Levels :
        /\ seq' = seq + k /\ missed' = missed + k - 1
        /\ IF sigproc_on
           THEN /\ sigproc_block(m, [seq |-> seq', missed |-> missed', gap |-> Gap(seq')])
                /\ sp_last_seq' = seq' /\ sp_fresh' = FALSE
           ELSE /\ filtered' = Unused /\ resonated' = Unused
                /\ UNCHANGED <<restart, st, gz, cn, heard, sp_last_seq, sp_fresh>>
        /\ UNCHANGED <<filter, gz_on, gz_thr, sigproc_on, stream, typed>>
  BY DEF ServiceBlock
<1>2. m \in Nat /\ seq' \in Nat /\ missed' \in Nat /\ Gap(seq') \in BOOLEAN
      /\ seq \in Nat /\ sp_last_seq \in Nat
  BY <1>1, SigProcAssumption DEF Continuity, StateTypeOK, Gap
<1>3. CASE ~sigproc_on
  BY <1>1, <1>2, <1>3 DEF Continuity, StateTypeOK, FilterState, CounterState, Carried, Follows
<1>4. CASE sigproc_on
  <2> DEFINE info == [seq |-> seq', missed |-> missed', gap |-> Gap(seq')]
  <2>1. /\ info.seq = seq' /\ info.missed = missed' /\ (info.gap <=> Gap(seq'))
        /\ info.gap \in BOOLEAN
    BY <1>2
  <2>2. ~info.gap => Carried /\ info.seq = sp_last_seq + 1
    BY <2>1 DEF Gap, Carried
  <2>3. sigproc_app_block(m, info) /\ filter_block(info)
    BY <1>1, <1>4 DEF sigproc_block
  <2> HIDE DEF info
  <2>4. /\ cn' \in Counter
        /\ cn'.on /\ ~cn'.dirty /\ cn'.ready => cn'.at = <<"cnt", stream, info.seq>>
        /\ Follows(resonated, "cnt")'
    BY <1>1, <1>2, <2>1, <2>2, <2>3, CounterBlock
  <2>5. CounterState'
    BY <1>1, <1>4, <2>1, <2>4 DEF CounterState
  <2>6. FilterState' /\ restart' \in BOOLEAN /\ Follows(filtered, filter)'
    <3>1. CASE filter = "off"
      BY <1>1, <1>4, <2>3, <3>1 DEF filter_block, FilterState, Follows, Continuity, StateTypeOK
    <3>2. CASE filter # "off"
      <4>1. /\ filtered' = IF info.gap \/ restart THEN Settled ELSE st
            /\ restart' = FALSE /\ st' = <<filter, stream, info.seq>>
        BY <2>3, <3>2 DEF filter_block
      <4>2. CASE info.gap \/ restart
        BY <1>1, <1>4, <2>1, <4>1, <4>2 DEF FilterState, Follows
      <4>3. CASE ~(info.gap \/ restart)
        <5>1. st = <<filter, stream, sp_last_seq>>
          BY <2>2, <3>2, <4>3 DEF Continuity, FilterState
        <5>2. seq' - 1 = sp_last_seq
          <6>1. info.seq = sp_last_seq + 1
            BY <2>2, <4>3
          <6>2. seq' = sp_last_seq + 1
            BY <2>1, <6>1
          <6> QED
            BY <1>2, <6>2
        <5>3. filtered' = <<filter, stream, seq' - 1>>
          BY <4>1, <4>3, <5>1, <5>2
        <5>4. Follows(filtered, filter)'
          BY <1>1, <5>3 DEF Follows
        <5> QED
          BY <1>1, <1>4, <2>1, <4>1, <5>4 DEF FilterState
      <4> QED
        BY <4>2, <4>3
    <3> QED
      BY <3>1, <3>2
  <2> QED
    BY <1>1, <1>2, <1>4, <2>4, <2>5, <2>6 DEF Continuity, StateTypeOK
<1> QED
  BY <1>3, <1>4

(* A stream starts, and what may be typed.                                 *)
LEMMA SettingsContinue ==
  ASSUME Continuity, NewStream \/ SetFilter \/ SetGoertzel \/ SetThreshold \/ SetCounter
  PROVE  Continuity' /\ seq' = seq
<1>1. CASE NewStream
  <2>1. /\ \E other \in BOOLEAN :
              cn' = [cn EXCEPT !.fs = TRUE, !.dirty = cn.dirty \/ ~cn.fs \/ other]
        /\ sp_fresh' = TRUE /\ stream' = stream + 1 /\ missed' = 0
        /\ UNCHANGED <<seq, sp_last_seq, filter, restart, sigproc_on>>
    BY <1>1 DEF NewStream, hooks
  <2>2. cn' \in Counter
    BY <2>1 DEF Continuity, StateTypeOK, Counter
  <2> QED
    BY <2>1, <2>2 DEF Continuity, StateTypeOK, FilterState, CounterState, Carried
<1>2. CASE SetFilter \/ SetGoertzel \/ SetThreshold \/ SetCounter
  <2>1. /\ UNCHANGED <<st, sp_last_seq, missed, seq, stream>>
        /\ sigproc_on' \in BOOLEAN /\ sp_fresh' \in BOOLEAN
        /\ sp_fresh => sp_fresh'
    <3>1. Typed
      BY <1>2 DEF SetFilter, SetGoertzel, SetThreshold, SetCounter
    <3> QED
      BY <3>1 DEF Typed, capture_sigproc_enable, Continuity, StateTypeOK
  <2>2. CASE SetFilter
    <3>1. PICK f \in Filters \cup {"off"} : restart' = (restart \/ f # filter) /\ filter' = f /\ cn' = cn
      BY <2>2 DEF SetFilter, sigproc_set_filter
    <3> QED
      BY <2>1, <3>1 DEF Continuity, StateTypeOK, FilterState, CounterState, Carried
  <2>3. CASE SetGoertzel \/ SetThreshold
    <3>1. UNCHANGED <<filter, restart, cn>>
      BY <2>3 DEF SetGoertzel, SetThreshold
    <3> QED
      BY <2>1, <3>1 DEF Continuity, StateTypeOK, FilterState, CounterState, Carried
  <2>4. CASE SetCounter
    <3>1. UNCHANGED <<filter, restart>> /\ FilterState'
      BY <2>1, <2>4 DEF SetCounter, Continuity, FilterState, Carried
    <3>2. cn' \in Counter /\ (cn'.on /\ ~cn'.dirty => cn.on /\ ~cn.dirty)
          /\ cn'.at = cn.at /\ (cn'.ready <=> cn.ready)
      <4>1. CASE \E on \in BOOLEAN : cn' = [cn EXCEPT !.on = on, !.dirty = cn.dirty \/ (on /\ ~cn.on),
                                                   !.reset = cn.reset \/ (on /\ ~cn.on)]
        <5>1. PICK on \in BOOLEAN : cn' = [cn EXCEPT !.on = on, !.dirty = cn.dirty \/ (on /\ ~cn.on),
                                                   !.reset = cn.reset \/ (on /\ ~cn.on)]
          BY <4>1
        <5> DEFINE d == cn.dirty \/ (on /\ ~cn.on)
                   e == cn.reset \/ (on /\ ~cn.on)
        <5>2. d \in BOOLEAN /\ e \in BOOLEAN
          OBVIOUS
        <5>3. cn' = [cn EXCEPT !.on = on, !.dirty = d, !.reset = e]
          BY <5>1
        <5> HIDE DEF d, e
        <5>4. cn \in Counter
          BY DEF Continuity, StateTypeOK
        <5>5. cn' \in Counter
          BY <5>2, <5>3, <5>4 DEF Counter
        <5>6. cn'.at = cn.at /\ cn'.ready = cn.ready
          BY <5>3, <5>4 DEF Counter
        <5>7. cn'.on = on /\ cn'.dirty = d
          BY <5>3, <5>4 DEF Counter
        <5> QED
          BY <5>5, <5>6, <5>7 DEF d
      <4>2. CASE cn' = [cn EXCEPT !.reset = TRUE]
        BY <4>2 DEF Continuity, StateTypeOK, Counter
      <4>3. CASE \E t \in Thresholds : cn' = [cn EXCEPT !.thr = t, !.dirty = TRUE]
        BY <4>3 DEF Continuity, StateTypeOK, Counter
      <4> QED
        BY <2>4, <4>1, <4>2, <4>3 DEF SetCounter
    <3> QED
      BY <2>1, <3>1, <3>2 DEF Continuity, StateTypeOK, CounterState, Carried
  <2> QED
    BY <1>2, <2>1, <2>2, <2>3, <2>4
<1> QED
  BY <1>1, <1>2

(* At boot no filter and no counter carries anything.                      *)
LEMMA ContinuityInit == SigProcInit => Continuity
<1> SUFFICES ASSUME SigProcInit PROVE Continuity
  OBVIOUS
<1>1. (CHOOSE t \in Thresholds : TRUE) \in Thresholds
  BY SigProcAssumption
<1> DEFINE t == CHOOSE t \in Thresholds : TRUE
<1>2. cn = [on |-> FALSE, dirty |-> FALSE, reset |-> FALSE, fs |-> FALSE, ready |-> FALSE,
            thr |-> t, thr2 |-> 0, q |-> 0, at |-> Never,
            armed |-> TRUE, pk |-> 0, tr |-> 0, count |-> 0, missed0 |-> 0, missed |-> 0]
  BY DEF SigProcInit
<1> HIDE DEF t
<1>3. cn \in Counter /\ cn.on = FALSE
  BY <1>1, <1>2 DEF Counter, t
<1> QED
  BY <1>3 DEF SigProcInit, Continuity, StateTypeOK, FilterState, CounterState, Carried

(* The filter's and the counter's state are always those of the block      *)
(* processed last, or marked to start afresh (sigproc.c, filter_restart;   *)
(* impact.c, cnt_dirty; capture.c, sp_fresh and sp_last_seq).              *)
THEOREM StateIsContinuous == SigProcSpec => []Continuity
<1>1. Continuity /\ [SigProcNext]_sigprocVars => Continuity'
  <2>1. Continuity /\ UNCHANGED sigprocVars => Continuity'
    BY DEF sigprocVars, Continuity, StateTypeOK, FilterState, CounterState, Carried
  <2> QED
    BY <2>1, BlockContinues, SettingsContinue DEF SigProcNext
<1> QED
  BY <1>1, ContinuityInit, PTL DEF SigProcSpec

(* A filter and the counter's resonator go on from the state they left at  *)
(* the end of the block directly before, or start afresh - across missed   *)
(* halves, new streams, and settings typed between two blocks.             *)
THEOREM FilterAlwaysContinues == SigProcSpec => FilterContinues
<1>1. Continuity /\ [SigProcNext]_sigprocVars
        => [seq' # seq => Follows(filtered, filter)' /\ Follows(resonated, "cnt")']_sigprocVars
  BY BlockContinues, SettingsContinue DEF SigProcNext
<1> QED
  BY <1>1, StateIsContinuous, PTL DEF SigProcSpec, FilterContinues

-----------------------------------------------------------------------------
(* The impact counter and the history of what it heard.  Below(n, m), what *)
(* counts as fallen and as an impact, read off a history h.                *)
Entry == [m : Nat, thr : Nat, counted : BOOLEAN]
LastBefore(h, i, j) ==
  i \in 1 .. (j - 1) /\ h[i].counted /\ \A o \in (i + 1) .. (j - 1) : ~h[o].counted
FellAt(h, i, k) == (\E p \in i .. k : Below(h[k].m, h[p].m)) \/ 4 * h[k].m < h[k].thr
ImpactAt(h, i, j) ==
  /\ h[j].m > h[j].thr
  /\ \E k \in (i + 1) .. (j - 1) :
       FellAt(h, i, k) /\ \E l \in k .. (j - 1) : Below(h[l].m, h[j].m)

(* Since the last one counted: not yet fallen, and pk the peak; or fallen  *)
(* at k for the first time, and tr the lowest since.                       *)
Ringing(h, i, pk) ==
  /\ \A p \in i .. Len(h) : h[p].m <= pk
  /\ \E p \in i .. Len(h) : h[p].m = pk
  /\ \A k \in (i + 1) .. Len(h) : ~FellAt(h, i, k)
Faded(h, i, tr) ==
  \E k \in (i + 1) .. Len(h) :
    /\ FellAt(h, i, k) /\ \A l \in (i + 1) .. (k - 1) : ~FellAt(h, i, l)
    /\ \A l \in k .. Len(h) : tr <= h[l].m
    /\ \E l \in k .. Len(h) : h[l].m = tr
Rule(h, armed, pk, tr) ==
  \E i \in 1 .. Len(h) : /\ LastBefore(h, i, Len(h) + 1)
                         /\ IF armed THEN Faded(h, i, tr) ELSE Ringing(h, i, pk)
Exact(h) ==
  \A j \in 2 .. Len(h) :
    \E i \in 1 .. (j - 1) : LastBefore(h, i, j) /\ (h[j].counted <=> ImpactAt(h, i, j))

(* What was counted so far was counted by the rule; a counter that is on   *)
(* and not about to be reset stands where the rule stands.                 *)
HeardInv ==
  /\ heard \in Seq(Entry) /\ Exact(heard)
  /\ cn.on /\ ~cn.reset => heard # <<>> /\ Rule(heard, cn.armed, cn.pk, cn.tr)

(* One more entry changes nothing about those before it.                   *)
LEMMA HeardBefore ==
  ASSUME NEW h \in Seq(Entry), NEW e \in Entry
  PROVE  LET g == Append(h, e)
         IN  /\ g \in Seq(Entry) /\ Len(g) = Len(h) + 1 /\ g[Len(h) + 1] = e
             /\ \A i \in 1 .. Len(h) : g[i] = h[i] /\ h[i] \in Entry
             /\ \A i, k \in 1 .. Len(h) : i <= k => (FellAt(g, i, k) <=> FellAt(h, i, k))
             /\ \A i, j \in 1 .. Len(h) : i < j => (ImpactAt(g, i, j) <=> ImpactAt(h, i, j))
             /\ \A i \in 1 .. Len(h) : \A j \in 1 .. (Len(h) + 1) :
                  LastBefore(g, i, j) <=> LastBefore(h, i, j)
<1> DEFINE g == Append(h, e)
           n == Len(h)
<1>1. /\ g \in Seq(Entry) /\ Len(g) = n + 1 /\ g[n + 1] = e /\ n \in Nat
      /\ \A i \in 1 .. n : g[i] = h[i] /\ h[i] \in Entry
  OBVIOUS
<1> HIDE DEF g, n
<1>2. ASSUME NEW i \in 1 .. n, NEW k \in 1 .. n, i <= k PROVE FellAt(g, i, k) <=> FellAt(h, i, k)
  <2>1. \A p \in i .. k : p \in 1 .. n
    BY <1>1, <1>2
  <2>2. g[k] = h[k] /\ \A p \in i .. k : g[p] = h[p]
    BY <1>1, <2>1
  <2> QED
    BY <2>2 DEF FellAt
<1>3. ASSUME NEW i \in 1 .. n, NEW j \in 1 .. n, i < j PROVE ImpactAt(g, i, j) <=> ImpactAt(h, i, j)
  <2>1. \A k \in (i + 1) .. (j - 1) : k \in 1 .. n /\ i <= k
    BY <1>1, <1>3
  <2>2. \A k \in (i + 1) .. (j - 1) : FellAt(g, i, k) <=> FellAt(h, i, k)
    BY <1>2, <2>1
  <2>3. \A k \in (i + 1) .. (j - 1) : \A l \in k .. (j - 1) : g[l] = h[l]
    <3>1. \A k \in (i + 1) .. (j - 1) : \A l \in k .. (j - 1) : l \in 1 .. n
      BY <1>1, <1>3
    <3> QED
      BY <1>1, <3>1
  <2>4. g[j] = h[j]
    BY <1>1
  <2> QED
    BY <2>2, <2>3, <2>4 DEF ImpactAt
<1>4. ASSUME NEW i \in 1 .. n, NEW j \in 1 .. (n + 1)
      PROVE  LastBefore(g, i, j) <=> LastBefore(h, i, j)
  <2>1. \A o \in (i + 1) .. (j - 1) : o \in 1 .. n
    BY <1>1, <1>4
  <2>2. g[i] = h[i] /\ \A o \in (i + 1) .. (j - 1) : g[o] = h[o]
    BY <1>1, <2>1
  <2> QED
    BY <2>2 DEF LastBefore
<1> QED
  BY <1>1, <1>2, <1>3, <1>4 DEF g, n

(* A counter that rings: the magnitude has fallen, or the peak follows it. *)
LEMMA HeardRinging ==
  ASSUME NEW h \in Seq(Entry), Exact(h), NEW pk \in Nat, NEW t, Rule(h, FALSE, pk, t),
         NEW m \in Nat, NEW thr \in Nat
  PROVE  LET g == Append(h, [m |-> m, thr |-> thr, counted |-> FALSE])
             p == IF m > pk THEN m ELSE pk
         IN  /\ Exact(g)
             /\ Below(m, p) \/ 4 * m < thr => \A q : Rule(g, TRUE, q, m)
             /\ ~(Below(m, p) \/ 4 * m < thr) => \A q : Rule(g, FALSE, p, q)
<1> DEFINE e == [m |-> m, thr |-> thr, counted |-> FALSE]
           g == Append(h, e)
           n == Len(h)
           p == IF m > pk THEN m ELSE pk
<1>1. e \in Entry /\ e.m = m /\ e.thr = thr /\ e.counted = FALSE
  BY DEF Entry
<1> HIDE DEF e
<1>2. /\ g \in Seq(Entry) /\ Len(g) = n + 1 /\ g[n + 1] = e /\ n \in Nat
      /\ \A i \in 1 .. n : g[i] = h[i] /\ h[i] \in Entry
      /\ \A i, k \in 1 .. n : i <= k => (FellAt(g, i, k) <=> FellAt(h, i, k))
      /\ \A i, j \in 1 .. n : i < j => (ImpactAt(g, i, j) <=> ImpactAt(h, i, j))
      /\ \A i \in 1 .. n : \A j \in 1 .. (n + 1) : LastBefore(g, i, j) <=> LastBefore(h, i, j)
  BY <1>1, HeardBefore
<1> HIDE DEF g, n
<1>3. PICK i \in 1 .. n : LastBefore(h, i, n + 1) /\ Ringing(h, i, pk)
  BY DEF Rule, n
<1>4. LastBefore(g, i, n + 1) /\ LastBefore(g, i, n + 2)
  <2>1. LastBefore(g, i, n + 1)
    BY <1>2, <1>3
  <2>2. \A o \in (i + 1) .. (n + 1) : o \in (i + 1) .. n \/ o = n + 1
    BY <1>2
  <2>3. i \in 1 .. (n + 1) /\ (n + 2) - 1 = n + 1 /\ (n + 1) - 1 = n
    BY <1>2
  <2> QED
    BY <1>1, <1>2, <2>1, <2>2, <2>3 DEF LastBefore
<1>5. /\ \A q \in i .. n : h[q].m <= pk /\ g[q] = h[q] /\ h[q].m \in Nat
      /\ \E q \in i .. n : h[q].m = pk
      /\ \A k \in (i + 1) .. n : ~FellAt(g, i, k)
  <2>1. /\ \A q \in i .. n : h[q].m <= pk
        /\ \E q \in i .. n : h[q].m = pk
        /\ \A k \in (i + 1) .. n : ~FellAt(h, i, k)
    BY <1>3 DEF Ringing, n
  <2>2. \A q \in i .. n : q \in 1 .. n
    BY <1>2
  <2>3. \A q \in i .. n : g[q] = h[q] /\ h[q].m \in Nat
    BY <1>2, <2>2 DEF Entry
  <2>4. \A k \in (i + 1) .. n : k \in 1 .. n /\ i <= k
    BY <1>2
  <2> QED
    BY <1>2, <2>1, <2>3, <2>4
<1>6. FellAt(g, i, n + 1) <=> Below(m, p) \/ 4 * m < thr
  <2>1. \A q \in i .. (n + 1) : q \in i .. n \/ q = n + 1
    BY <1>2
  <2>2. i \in i .. (n + 1) /\ n + 1 \in i .. (n + 1) /\ \A q \in i .. n : q \in i .. (n + 1)
    BY <1>2
  <2>3. g[n + 1].m = m /\ g[n + 1].thr = thr
    BY <1>1, <1>2
  <2>4. PICK top \in i .. n : g[top].m = pk
    BY <1>5
  <2>5. (\E q \in i .. (n + 1) : Below(m, g[q].m)) <=> Below(m, p)
    <3>1. ASSUME NEW q \in i .. (n + 1), Below(m, g[q].m) PROVE Below(m, p)
      <4>1. g[q].m \in Nat /\ g[q].m <= p
        BY <1>5, <2>1, <2>3
      <4> QED
        BY <3>1, <4>1 DEF Below
    <3>2. ASSUME Below(m, p) PROVE \E q \in i .. (n + 1) : Below(m, g[q].m)
      BY <2>2, <2>3, <2>4, <3>2
    <3> QED
      BY <3>1, <3>2
  <2> QED
    BY <2>3, <2>5 DEF FellAt
<1>7. Exact(g)
  <2> SUFFICES ASSUME NEW j \in 2 .. (n + 1)
               PROVE  \E o \in 1 .. (j - 1) : LastBefore(g, o, j) /\ (g[j].counted <=> ImpactAt(g, o, j))
    BY <1>2 DEF Exact
  <2>1. CASE j \in 2 .. n
    <3>1. PICK o \in 1 .. (j - 1) : LastBefore(h, o, j) /\ (h[j].counted <=> ImpactAt(h, o, j))
      BY <2>1 DEF Exact, n
    <3>2. o \in 1 .. n /\ j \in 1 .. n /\ j \in 1 .. (n + 1) /\ o < j
      BY <1>2, <2>1
    <3> QED
      BY <1>2, <3>1, <3>2
  <2>2. CASE j = n + 1
    <3>1. ~ImpactAt(g, i, n + 1)
      <4>1. (n + 1) - 1 = n
        BY <1>2
      <4> QED
        BY <1>5, <4>1 DEF ImpactAt
    <3>2. i \in 1 .. (j - 1)
      BY <1>2, <2>2
    <3> QED
      BY <1>1, <1>2, <1>4, <2>2, <3>1, <3>2
  <2> QED
    BY <1>2, <2>1, <2>2
<1>8. ASSUME Below(m, p) \/ 4 * m < thr PROVE \A q : Rule(g, TRUE, q, m)
  <2>1. n + 1 \in (i + 1) .. (n + 1) /\ i \in 1 .. (n + 1) /\ n + 1 \in (n + 1) .. (n + 1)
        /\ (n + 1) - 1 = n /\ (n + 1) + 1 = n + 2
    BY <1>2
  <2>2. \A l \in (n + 1) .. (n + 1) : g[l].m = m
    BY <1>1, <1>2
  <2>3. Faded(g, i, m)
    <3>1. /\ FellAt(g, i, n + 1) /\ \A l \in (i + 1) .. ((n + 1) - 1) : ~FellAt(g, i, l)
          /\ \A l \in (n + 1) .. (n + 1) : m <= g[l].m
          /\ \E l \in (n + 1) .. (n + 1) : g[l].m = m
      BY <1>5, <1>6, <1>8, <2>1, <2>2
    <3> QED
      BY <1>2, <2>1, <3>1 DEF Faded
  <2> QED
    BY <1>2, <1>4, <2>1, <2>3 DEF Rule
<1>9. ASSUME ~(Below(m, p) \/ 4 * m < thr) PROVE \A q : Rule(g, FALSE, p, q)
  <2>1. /\ \A q \in i .. (n + 1) : q \in i .. n \/ q = n + 1
        /\ \A k \in (i + 1) .. (n + 1) : k \in (i + 1) .. n \/ k = n + 1
        /\ \A q \in i .. n : q \in i .. (n + 1)
        /\ n + 1 \in i .. (n + 1) /\ i \in 1 .. (n + 1) /\ (n + 1) + 1 = n + 2
    BY <1>2
  <2>2. g[n + 1].m = m
    BY <1>1, <1>2
  <2>3. \A q \in i .. (n + 1) : g[q].m <= p
    BY <1>5, <2>1, <2>2
  <2>4. \E q \in i .. (n + 1) : g[q].m = p
    <3>1. PICK top \in i .. n : g[top].m = pk
      BY <1>5
    <3> QED
      BY <2>1, <2>2, <3>1
  <2>5. \A k \in (i + 1) .. (n + 1) : ~FellAt(g, i, k)
    BY <1>5, <1>6, <1>9, <2>1
  <2>6. Ringing(g, i, p)
    BY <1>2, <2>3, <2>4, <2>5 DEF Ringing
  <2> QED
    BY <1>2, <1>4, <2>1, <2>6 DEF Rule
<1> QED
  BY <1>7, <1>8, <1>9 DEF g, e, p

(* A counter that is armed: the magnitude has risen enough above the       *)
(* lowest since the fall and is counted, or the lowest follows it.         *)
LEMMA HeardArmed ==
  ASSUME NEW h \in Seq(Entry), Exact(h), NEW tr \in Nat, NEW k0, Rule(h, TRUE, k0, tr),
         NEW m \in Nat, NEW thr \in Nat
  PROVE  LET t == IF m < tr THEN m ELSE tr
             rise == m > thr /\ Below(t, m)
             g == Append(h, [m |-> m, thr |-> thr, counted |-> rise])
         IN  /\ Exact(g)
             /\ rise => \A q : Rule(g, FALSE, m, q)
             /\ ~rise => \A q : Rule(g, TRUE, q, t)
<1> DEFINE t == IF m < tr THEN m ELSE tr
           rise == m > thr /\ Below(t, m)
           e == [m |-> m, thr |-> thr, counted |-> rise]
           g == Append(h, e)
           n == Len(h)
<1>0. rise \in BOOLEAN /\ t \in Nat /\ t <= tr /\ t <= m
  BY DEF Below
<1>1. e \in Entry /\ e.m = m /\ e.thr = thr /\ (e.counted <=> rise)
  BY <1>0 DEF Entry
<1> HIDE DEF e
<1>2. /\ g \in Seq(Entry) /\ Len(g) = n + 1 /\ g[n + 1] = e /\ n \in Nat
      /\ \A i \in 1 .. n : g[i] = h[i] /\ h[i] \in Entry
      /\ \A i, k \in 1 .. n : i <= k => (FellAt(g, i, k) <=> FellAt(h, i, k))
      /\ \A i, j \in 1 .. n : i < j => (ImpactAt(g, i, j) <=> ImpactAt(h, i, j))
      /\ \A i \in 1 .. n : \A j \in 1 .. (n + 1) : LastBefore(g, i, j) <=> LastBefore(h, i, j)
  BY <1>1, HeardBefore
<1> HIDE DEF g, n
<1>3. PICK i \in 1 .. n : LastBefore(h, i, n + 1) /\ Faded(h, i, tr)
  BY DEF Rule, n
<1>4. PICK k \in (i + 1) .. n :
        /\ FellAt(h, i, k) /\ \A l \in (i + 1) .. (k - 1) : ~FellAt(h, i, l)
        /\ \A l \in k .. n : tr <= h[l].m
        /\ \E l \in k .. n : h[l].m = tr
  BY <1>3 DEF Faded, n
<1>5. /\ FellAt(g, i, k) /\ \A l \in (i + 1) .. (k - 1) : ~FellAt(g, i, l)
      /\ \A l \in k .. n : g[l].m \in Nat /\ tr <= g[l].m
      /\ \E l \in k .. n : g[l].m = tr
  <2>1. k \in 1 .. n /\ i <= k
    BY <1>2
  <2>2. \A l \in (i + 1) .. (k - 1) : l \in 1 .. n /\ i <= l
    BY <1>2
  <2>3. \A l \in k .. n : l \in 1 .. n
    BY <1>2
  <2>4. \A l \in k .. n : g[l] = h[l] /\ h[l].m \in Nat
    BY <1>2, <2>3 DEF Entry
  <2>5. FellAt(g, i, k)
    BY <1>2, <1>4, <2>1
  <2>6. \A l \in (i + 1) .. (k - 1) : ~FellAt(g, i, l)
    BY <1>2, <1>4, <2>2
  <2> QED
    BY <1>4, <2>4, <2>5, <2>6
<1>6. LastBefore(g, i, n + 1) /\ g[n + 1].m = m /\ g[n + 1].thr = thr /\ (g[n + 1].counted <=> rise)
  BY <1>1, <1>2, <1>3
<1> HIDE DEF rise
<1>7. rise <=> ImpactAt(g, i, n + 1)
  <2>1. (n + 1) - 1 = n
    BY <1>2
  <2>2. ASSUME rise PROVE ImpactAt(g, i, n + 1)
    <3>1. PICK l \in k .. n : g[l].m = tr
      BY <1>5
    <3>2. m > thr /\ Below(t, m)
      BY <2>2 DEF rise
    <3>3. Below(g[l].m, m)
      BY <3>1, <3>2 DEF Below
    <3> QED
      BY <1>5, <1>6, <2>1, <3>2, <3>3 DEF ImpactAt
  <2>3. ASSUME ImpactAt(g, i, n + 1) PROVE rise
    <3>1. m > thr
      BY <1>6, <2>3 DEF ImpactAt
    <3>2. PICK k2 \in (i + 1) .. n : FellAt(g, i, k2) /\ \E l \in k2 .. n : Below(g[l].m, m)
      BY <1>6, <2>1, <2>3 DEF ImpactAt
    <3>3. PICK l \in k2 .. n : Below(g[l].m, m)
      BY <3>2
    <3>4. k <= k2
      <4>1. SUFFICES ASSUME ~(k <= k2) PROVE FALSE
        OBVIOUS
      <4>2. k2 \in (i + 1) .. (k - 1)
        BY <1>2, <4>1
      <4> QED
        BY <1>5, <3>2, <4>2
    <3>5. l \in k .. n
      BY <1>2, <3>4
    <3>6. g[l].m \in Nat /\ tr <= g[l].m
      BY <1>5, <3>5
    <3>7. Below(t, m)
      BY <1>0, <3>3, <3>6 DEF Below
    <3> QED
      BY <3>1, <3>7 DEF rise
  <2> QED
    BY <2>2, <2>3
<1>8. Exact(g)
  <2> SUFFICES ASSUME NEW j \in 2 .. (n + 1)
               PROVE  \E o \in 1 .. (j - 1) : LastBefore(g, o, j) /\ (g[j].counted <=> ImpactAt(g, o, j))
    BY <1>2 DEF Exact
  <2>1. CASE j \in 2 .. n
    <3>1. PICK o \in 1 .. (j - 1) : LastBefore(h, o, j) /\ (h[j].counted <=> ImpactAt(h, o, j))
      BY <2>1 DEF Exact, n
    <3>2. o \in 1 .. n /\ j \in 1 .. n /\ j \in 1 .. (n + 1) /\ o < j
      BY <1>2, <2>1
    <3> QED
      BY <1>2, <3>1, <3>2
  <2>2. CASE j = n + 1
    <3>1. i \in 1 .. (j - 1)
      BY <1>2, <2>2
    <3> QED
      BY <1>6, <1>7, <2>2, <3>1
  <2> QED
    BY <1>2, <2>1, <2>2
<1>9. ASSUME rise PROVE \A q : Rule(g, FALSE, m, q)
  <2>1. /\ n + 1 \in 1 .. (n + 1) /\ \A q \in (n + 1) .. (n + 1) : q = n + 1
        /\ n + 1 \in (n + 1) .. (n + 1)
        /\ (n + 1) + 1 = n + 2 /\ (n + 2) - 1 = n + 1 /\ \A q \in (n + 2) .. (n + 1) : FALSE
    BY <1>2
  <2>2. LastBefore(g, n + 1, n + 2)
    BY <1>6, <1>9, <2>1 DEF LastBefore
  <2>3. \A q \in (n + 1) .. (n + 1) : g[q].m <= m
    BY <1>6, <2>1
  <2>4. Ringing(g, n + 1, m)
    BY <1>2, <1>6, <2>1, <2>3 DEF Ringing
  <2> QED
    BY <1>2, <2>1, <2>2, <2>4 DEF Rule
<1>10. ASSUME ~rise PROVE \A q : Rule(g, TRUE, q, t)
  <2>1. /\ \A o \in (i + 1) .. (n + 1) : o \in (i + 1) .. n \/ o = n + 1
        /\ \A l \in k .. (n + 1) : l \in k .. n \/ l = n + 1
        /\ \A l \in k .. n : l \in k .. (n + 1)
        /\ n + 1 \in k .. (n + 1) /\ k \in (i + 1) .. (n + 1)
        /\ i \in 1 .. (n + 1) /\ (n + 2) - 1 = n + 1 /\ (n + 1) - 1 = n /\ (n + 1) + 1 = n + 2
    BY <1>2
  <2>2. LastBefore(g, i, n + 2)
    <3>1. g[i].counted /\ \A o \in (i + 1) .. n : ~g[o].counted
      BY <1>6, <2>1 DEF LastBefore
    <3> QED
      BY <1>6, <1>10, <2>1, <3>1 DEF LastBefore
  <2>3. \A l \in k .. (n + 1) : t <= g[l].m
    BY <1>0, <1>5, <1>6, <2>1
  <2>4. \E l \in k .. (n + 1) : g[l].m = t
    <3>1. PICK l \in k .. n : g[l].m = tr
      BY <1>5
    <3> QED
      BY <1>6, <2>1, <3>1
  <2>5. Faded(g, i, t)
    BY <1>2, <1>5, <2>1, <2>3, <2>4 DEF Faded
  <2> QED
    BY <1>2, <2>1, <2>2, <2>5 DEF Rule
<1> QED
  BY <1>8, <1>9, <1>10 DEF rise, g, e, t

(* The four ways one evaluation goes.                                      *)
LEMMA EvaluateMoves ==
  ASSUME NEW c \in Counter, NEW m \in Nat
  PROVE  LET e == cnt_evaluate(c, m)
             t == IF m < c.tr THEN m ELSE c.tr
             p == IF m > c.pk THEN m ELSE c.pk
             rise == m > c.thr2 /\ Below(t, m)
             fell == Below(m, p) \/ 4 * m < c.thr2
         IN  /\ e.on = c.on /\ e.reset = c.reset
             /\ c.armed /\ rise => e.count = c.count + 1 /\ ~e.armed /\ e.pk = m
             /\ c.armed /\ ~rise => e.count = c.count /\ e.armed /\ e.tr = t
             /\ ~c.armed /\ fell => e.count = c.count /\ e.armed /\ e.tr = m
             /\ ~c.armed /\ ~fell => e.count = c.count /\ ~e.armed /\ e.pk = p
<1> DEFINE e == cnt_evaluate(c, m)
           t == IF m < c.tr THEN m ELSE c.tr
           p == IF m > c.pk THEN m ELSE c.pk
           d == [c EXCEPT !.q = m]
           rise == m > c.thr2 /\ Below(t, m)
           fell == Below(m, p) \/ 4 * m < c.thr2
<1>1. d \in Counter /\ d.on = c.on /\ d.reset = c.reset /\ d.count = c.count
      /\ (d.armed <=> c.armed)
  BY DEF Counter
<1>2. /\ c.armed /\ rise => e = [d EXCEPT !.count = @ + 1, !.armed = FALSE, !.pk = m, !.tr = t]
      /\ c.armed /\ ~rise => e = [d EXCEPT !.tr = t]
      /\ ~c.armed /\ fell => e = [d EXCEPT !.armed = TRUE, !.tr = m, !.pk = p]
      /\ ~c.armed /\ ~fell => e = [d EXCEPT !.pk = p]
  BY DEF cnt_evaluate
<1> HIDE DEF e, t, p, d, rise, fell
<1>3. CASE c.armed /\ rise
  <2>1. e = [d EXCEPT !.count = @ + 1, !.armed = FALSE, !.pk = m, !.tr = t]
    BY <1>2, <1>3
  <2>2. e.on = d.on /\ e.reset = d.reset
    BY <1>1, <2>1 DEF Counter
  <2>3. e.count = d.count + 1 /\ e.armed = FALSE /\ e.pk = m
    BY <1>1, <2>1 DEF Counter
  <2> QED
    BY <1>1, <1>3, <2>2, <2>3 DEF e, t, p, rise, fell
<1>4. CASE c.armed /\ ~rise
  <2>1. e = [d EXCEPT !.tr = t]
    BY <1>2, <1>4
  <2>2. e.on = d.on /\ e.reset = d.reset /\ e.count = d.count /\ e.armed = d.armed /\ e.tr = t
    BY <1>1, <2>1 DEF Counter
  <2> QED
    BY <1>1, <1>4, <2>2 DEF e, t, p, rise, fell
<1>5. CASE ~c.armed /\ fell
  <2>1. e = [d EXCEPT !.armed = TRUE, !.tr = m, !.pk = p]
    BY <1>2, <1>5
  <2>2. e.on = d.on /\ e.reset = d.reset /\ e.count = d.count
    BY <1>1, <2>1 DEF Counter
  <2>3. e.armed = TRUE /\ e.tr = m
    BY <1>1, <2>1 DEF Counter
  <2> QED
    BY <1>1, <1>5, <2>2, <2>3 DEF e, t, p, rise, fell
<1>6. CASE ~c.armed /\ ~fell
  <2>1. e = [d EXCEPT !.pk = p]
    BY <1>2, <1>6
  <2>2. e.on = d.on /\ e.reset = d.reset /\ e.count = d.count /\ e.armed = d.armed /\ e.pk = p
    BY <1>1, <2>1 DEF Counter
  <2> QED
    BY <1>1, <1>6, <2>2 DEF e, t, p, rise, fell
<1> QED
  BY <1>3, <1>4, <1>5, <1>6

(* An evaluation counts by the rule, and leaves the counter where the rule *)
(* stands.                                                                 *)
LEMMA HeardEvaluates ==
  ASSUME NEW c \in Counter, NEW m \in Nat, NEW h \in Seq(Entry), Exact(h),
         Rule(h, c.armed, c.pk, c.tr)
  PROVE  LET e == cnt_evaluate(c, m)
             g == Append(h, [m |-> m, thr |-> c.thr2, counted |-> e.count > c.count])
         IN  g \in Seq(Entry) /\ Exact(g) /\ Rule(g, e.armed, e.pk, e.tr)
<1> DEFINE e == cnt_evaluate(c, m)
           t == IF m < c.tr THEN m ELSE c.tr
           p == IF m > c.pk THEN m ELSE c.pk
           rise == m > c.thr2 /\ Below(t, m)
           fell == Below(m, p) \/ 4 * m < c.thr2
           entry == [m |-> m, thr |-> c.thr2, counted |-> e.count > c.count]
           g == Append(h, entry)
<1>1. /\ c.armed \in BOOLEAN /\ c.pk \in Nat /\ c.tr \in Nat /\ c.thr2 \in Nat /\ c.count \in Nat
      /\ rise \in BOOLEAN
  BY DEF Counter, Below
<1>2. e \in Counter
  BY EvaluateType
<1>3. /\ c.armed /\ rise => e.count = c.count + 1 /\ ~e.armed /\ e.pk = m
      /\ c.armed /\ ~rise => e.count = c.count /\ e.armed /\ e.tr = t
      /\ ~c.armed /\ fell => e.count = c.count /\ e.armed /\ e.tr = m
      /\ ~c.armed /\ ~fell => e.count = c.count /\ ~e.armed /\ e.pk = p
  BY EvaluateMoves
<1>4. e.armed \in BOOLEAN /\ e.count \in Nat
  BY <1>2 DEF Counter
<1>5. entry \in Entry
  BY <1>1, <1>4 DEF Entry
<1>6. g \in Seq(Entry)
  BY <1>5
<1> HIDE DEF e
<1>7. CASE c.armed
  <2>1. (e.count > c.count) = rise
    BY <1>1, <1>3, <1>4, <1>7
  <2> DEFINE a == Append(h, [m |-> m, thr |-> c.thr2, counted |-> rise])
  <2>2. g = a
    BY <2>1
  <2>3. Rule(h, TRUE, c.pk, c.tr)
    BY <1>1, <1>7
  <2>4. /\ Exact(a) /\ (rise => \A q : Rule(a, FALSE, m, q))
        /\ (~rise => \A q : Rule(a, TRUE, q, t))
    BY <1>1, <2>3, HeardArmed
  <2> HIDE DEF g, a
  <2>5. CASE rise
    <3>1. e.armed = FALSE /\ e.pk = m
      BY <1>3, <1>4, <1>7, <2>5
    <3>2. Rule(g, FALSE, m, e.tr)
      BY <2>2, <2>4, <2>5
    <3>3. Rule(g, e.armed, e.pk, e.tr)
      BY <3>1, <3>2
    <3> QED
      BY <1>6, <2>2, <2>4, <3>3 DEF g, e
  <2>6. CASE ~rise
    <3>1. e.armed = TRUE /\ e.tr = t
      BY <1>3, <1>4, <1>7, <2>6
    <3>2. Rule(g, TRUE, e.pk, t)
      BY <2>2, <2>4, <2>6
    <3>3. Rule(g, e.armed, e.pk, e.tr)
      BY <3>1, <3>2
    <3> QED
      BY <1>6, <2>2, <2>4, <3>3 DEF g, e
  <2> QED
    BY <2>5, <2>6
<1>8. CASE ~c.armed
  <2>1. (e.count > c.count) = FALSE
    BY <1>1, <1>3, <1>8
  <2> DEFINE a == Append(h, [m |-> m, thr |-> c.thr2, counted |-> FALSE])
  <2>2. g = a
    BY <2>1
  <2>3. Rule(h, FALSE, c.pk, c.tr)
    BY <1>1, <1>8
  <2>4. /\ Exact(a) /\ (fell => \A q : Rule(a, TRUE, q, m))
        /\ (~fell => \A q : Rule(a, FALSE, p, q))
    BY <1>1, <2>3, HeardRinging
  <2> HIDE DEF g, a
  <2>5. CASE fell
    <3>1. e.armed = TRUE /\ e.tr = m
      BY <1>3, <1>4, <1>8, <2>5
    <3>2. Rule(g, TRUE, e.pk, m)
      BY <2>2, <2>4, <2>5
    <3>3. Rule(g, e.armed, e.pk, e.tr)
      BY <3>1, <3>2
    <3> QED
      BY <1>6, <2>2, <2>4, <3>3 DEF g, e
  <2>6. CASE ~fell
    <3>1. e.armed = FALSE /\ e.pk = p
      BY <1>3, <1>4, <1>8, <2>6
    <3>2. Rule(g, FALSE, p, e.tr)
      BY <2>2, <2>4, <2>6
    <3>3. Rule(g, e.armed, e.pk, e.tr)
      BY <3>1, <3>2
    <3> QED
      BY <1>6, <2>2, <2>4, <3>3 DEF g, e
  <2> QED
    BY <2>5, <2>6
<1> QED
  BY <1>7, <1>8

(* A reconfiguration leaves the rule where it stood, unless it resets it:  *)
(* then what rings now is the first to fall.                               *)
LEMMA ConfiguredRule ==
  ASSUME NEW c \in Counter, NEW info, info.missed \in Nat
  PROVE  LET d == Configured(c, info)
         IN  /\ d.on = c.on /\ d.reset = FALSE
             /\ ~c.reset => d.armed = c.armed /\ d.pk = c.pk /\ d.tr = c.tr
             /\ c.reset => d.armed = FALSE /\ d.pk = IF d.ready THEN d.q ELSE 0
<1> DEFINE s == IF c.dirty THEN cnt_setup(c) ELSE c
           d == Configured(c, info)
<1>1. s \in Counter /\ s.on = c.on /\ s.reset = c.reset /\ s.armed = c.armed
      /\ s.pk = c.pk /\ s.tr = c.tr
  <2>1. CASE ~c.dirty
    BY <2>1 DEF Counter
  <2>2. CASE c.dirty /\ c.fs
    <3>1. s = [c EXCEPT !.dirty = FALSE, !.ready = TRUE, !.thr2 = c.thr, !.q = 0]
      BY <2>2 DEF cnt_setup
    <3>2. c.thr \in Nat
      BY SigProcAssumption DEF Counter
    <3> HIDE DEF s
    <3> QED
      BY <2>2, <3>1, <3>2 DEF Counter
  <2>3. CASE c.dirty /\ ~c.fs
    <3>1. s = [c EXCEPT !.dirty = FALSE, !.ready = FALSE]
      BY <2>3 DEF cnt_setup
    <3> HIDE DEF s
    <3> QED
      BY <2>3, <3>1 DEF Counter
  <2> QED
    BY <2>1, <2>2, <2>3
<1>2. d = IF s.reset THEN cnt_reset(s, info) ELSE s
  BY DEF Configured
<1> HIDE DEF s, d
<1>3. CASE s.reset
  <2> DEFINE pk == IF s.ready THEN s.q ELSE 0
             lost == info.missed
  <2>1. d = [s EXCEPT !.reset = FALSE, !.count = 0, !.missed0 = lost, !.armed = FALSE, !.pk = pk]
    BY <1>2, <1>3 DEF cnt_reset
  <2> HIDE DEF pk, lost
  <2>2. d.on = s.on /\ d.ready = s.ready /\ d.q = s.q
    BY <1>1, <2>1 DEF Counter
  <2>3. d.reset = FALSE /\ d.armed = FALSE /\ d.pk = pk
    BY <1>1, <2>1 DEF Counter
  <2> QED
    BY <1>1, <1>3, <2>2, <2>3 DEF pk, d
<1>4. CASE ~s.reset
  <2>1. d = s /\ s.reset = FALSE
    BY <1>1, <1>2, <1>4 DEF Counter
  <2> QED
    BY <1>1, <1>4, <2>1 DEF d
<1> QED
  BY <1>3, <1>4

(* A counter that is reset starts from what rings: nothing to count yet.   *)
LEMMA HeardStarts ==
  ASSUME NEW e \in Entry, e.counted
  PROVE  <<e>> \in Seq(Entry) /\ Exact(<<e>>) /\ \A q : Rule(<<e>>, FALSE, e.m, q)
<1> DEFINE h == <<e>>
<1>1. h \in Seq(Entry) /\ Len(h) = 1 /\ h[1] = e
  OBVIOUS
<1> HIDE DEF h
<1>2. Exact(h)
  BY <1>1 DEF Exact
<1>3. LastBefore(h, 1, 2)
  BY <1>1 DEF LastBefore
<1>4. Ringing(h, 1, e.m)
  <2>1. \A p \in 1 .. 1 : p = 1
    OBVIOUS
  <2>2. e.m \in Nat
    BY DEF Entry
  <2> QED
    BY <1>1, <2>1, <2>2 DEF Ringing
<1>5. \A q : Rule(h, FALSE, e.m, q)
  BY <1>1, <1>3, <1>4 DEF Rule
<1> QED
  BY <1>1, <1>2, <1>5 DEF h

(* A block, heard by a counter that is on.                                 *)
LEMMA HeardBlock ==
  ASSUME HeardInv, cn \in Counter, NEW m \in Nat, NEW info, info.missed \in Nat,
         cnt_block(m, info), cn.on
  PROVE  HeardInv'
<1> DEFINE c == Configured(cn, info)
           gap == cn.dirty \/ info.gap
           r == IF gap THEN [c EXCEPT !.q = 0, !.at = Settled] ELSE c
           v == cnt_evaluate(r, m)
           lost == info.missed - c.missed0
           here == <<"cnt", stream, info.seq>>
           e == [v EXCEPT !.missed = lost, !.at = here]
           start == [m |-> IF c.ready THEN c.q ELSE 0, thr |-> c.thr2, counted |-> TRUE]
           entry == [m |-> m, thr |-> c.thr2, counted |-> e.count > c.count]
           h == IF cn.reset THEN <<start>> ELSE heard
<1>1. /\ cn' = IF c.ready THEN e ELSE c
      /\ heard' = h \o (IF c.ready THEN <<entry>> ELSE <<>>)
  BY DEF cnt_block
<1>2. c \in Counter /\ c.on /\ c.reset = FALSE
      /\ (~cn.reset => c.armed = cn.armed /\ c.pk = cn.pk /\ c.tr = cn.tr)
      /\ (cn.reset => c.armed = FALSE /\ c.pk = IF c.ready THEN c.q ELSE 0)
  BY ConfiguredType, ConfiguredRule
<1>3. heard \in Seq(Entry) /\ Exact(heard)
      /\ (~cn.reset => heard # <<>> /\ Rule(heard, cn.armed, cn.pk, cn.tr))
  BY DEF HeardInv
<1> HIDE DEF c, gap
<1>4. h \in Seq(Entry) /\ Exact(h) /\ h # <<>> /\ Rule(h, c.armed, c.pk, c.tr)
  <2>1. CASE cn.reset
    <3>1. start \in Entry /\ start.counted /\ start.m = c.pk
      BY <1>2, <2>1 DEF Counter, Entry
    <3> HIDE DEF start
    <3>2. <<start>> \in Seq(Entry) /\ Exact(<<start>>) /\ Rule(<<start>>, FALSE, c.pk, c.tr)
      BY <3>1, HeardStarts
    <3>3. <<start>> # <<>> /\ h = <<start>>
      BY <2>1
    <3> QED
      BY <1>2, <2>1, <3>2, <3>3
  <2>2. CASE ~cn.reset
    BY <1>2, <1>3, <2>2
  <2> QED
    BY <2>1, <2>2
<1> HIDE DEF h
<1>5. CASE ~c.ready
  <2>1. cn' = c /\ heard' = h \o <<>>
    BY <1>1, <1>5
  <2>2. heard' = h
    BY <1>4, <2>1
  <2> QED
    BY <1>4, <2>1, <2>2 DEF HeardInv
<1>6. CASE c.ready
  <2>1. /\ r \in Counter /\ r.on = c.on /\ r.reset = c.reset /\ r.armed = c.armed /\ r.pk = c.pk
        /\ r.tr = c.tr /\ r.thr2 = c.thr2 /\ r.count = c.count
    <3>1. CASE gap
      <4> DEFINE w == [c EXCEPT !.q = 0, !.at = Settled]
      <4>1. w \in Counter
        BY <1>2 DEF Counter
      <4>2. w.on = c.on /\ w.reset = c.reset /\ w.armed = c.armed /\ w.pk = c.pk
        BY <1>2 DEF Counter
      <4>3. w.tr = c.tr /\ w.thr2 = c.thr2 /\ w.count = c.count
        BY <1>2 DEF Counter
      <4>4. r = w
        BY <3>1
      <4> HIDE DEF w, r
      <4> QED
        BY <4>1, <4>2, <4>3, <4>4
    <3>2. CASE ~gap
      BY <1>2, <3>2
    <3> QED
      BY <3>1, <3>2
  <2> HIDE DEF r
  <2>2. Rule(h, r.armed, r.pk, r.tr)
    BY <1>4, <2>1
  <2> DEFINE x == [m |-> m, thr |-> r.thr2, counted |-> v.count > r.count]
             g == Append(h, x)
  <2>3. g \in Seq(Entry) /\ Exact(g) /\ Rule(g, v.armed, v.pk, v.tr)
    BY <1>4, <2>1, <2>2, HeardEvaluates
  <2>4. v \in Counter /\ v.on = r.on /\ v.reset = r.reset
    BY <2>1, EvaluateType, EvaluateMoves
  <2> HIDE DEF v, lost, here
  <2>5. e.on = v.on /\ e.reset = v.reset /\ e.count = v.count
    BY <2>4 DEF Counter
  <2>6. e.armed = v.armed /\ e.pk = v.pk /\ e.tr = v.tr
    BY <2>4 DEF Counter
  <2> HIDE DEF e
  <2>7. cn' = e /\ heard' = h \o <<entry>>
    BY <1>1, <1>6
  <2>8. entry = x
    BY <2>1, <2>5
  <2> HIDE DEF entry, x
  <2>9. heard' = g /\ g # <<>>
    <3>1. x \in Entry
      <4>1. (v.count > r.count) \in BOOLEAN /\ r.thr2 \in Nat
        BY <2>1, <2>4 DEF Counter
      <4> QED
        BY <4>1 DEF Entry, x
    <3> QED
      BY <1>4, <2>7, <2>8, <3>1
  <2> HIDE DEF g
  <2> QED
    BY <2>3, <2>6, <2>7, <2>9 DEF HeardInv
<1> QED
  BY <1>5, <1>6

(* Every other step leaves the history and what the rule stands on alone,  *)
(* or asks for the reset the next block begins with.                       *)
LEMMA HeardStep ==
  ASSUME HeardInv, Continuity, [SigProcNext]_sigprocVars
  PROVE  HeardInv'
<1>1. cn \in Counter
  BY DEF Continuity, StateTypeOK
<1>2. ASSUME heard' = heard, cn' = cn PROVE HeardInv'
  BY <1>2 DEF HeardInv
<1>3. CASE ServiceBlock
  <2>1. PICK k \in 1..2, m \in Levels :
          /\ seq' = seq + k /\ missed' = missed + k - 1
          /\ \/ sigproc_block(m, [seq |-> seq', missed |-> missed', gap |-> Gap(seq')])
             \/ UNCHANGED <<restart, st, gz, cn, heard, sp_last_seq, sp_fresh>>
    BY <1>3 DEF ServiceBlock
  <2>2. CASE UNCHANGED <<restart, st, gz, cn, heard, sp_last_seq, sp_fresh>>
    BY <1>2, <2>2
  <2>3. CASE sigproc_block(m, [seq |-> seq', missed |-> missed', gap |-> Gap(seq')])
    <3> DEFINE info == [seq |-> seq', missed |-> missed', gap |-> Gap(seq')]
    <3>1. m \in Nat /\ info.missed \in Nat
      BY <2>1, SigProcAssumption DEF Continuity, StateTypeOK
    <3>2. sigproc_app_block(m, info)
      BY <2>3 DEF sigproc_block
    <3> HIDE DEF info
    <3>3. CASE cn.on
      <4>1. cnt_block(m, info)
        BY <3>2, <3>3 DEF sigproc_app_block
      <4> QED
        BY <1>1, <3>1, <3>3, <4>1, HeardBlock
    <3>4. CASE ~cn.on
      BY <1>2, <3>2, <3>4 DEF sigproc_app_block
    <3> QED
      BY <3>3, <3>4
  <2> QED
    BY <2>1, <2>2, <2>3
<1>4. CASE NewStream
  <2>1. heard' = heard /\ \E other \in BOOLEAN :
                             cn' = [cn EXCEPT !.fs = TRUE, !.dirty = @ \/ ~cn.fs \/ other]
    BY <1>4 DEF NewStream
  <2>2. cn'.on = cn.on /\ cn'.reset = cn.reset
    BY <1>1, <2>1 DEF Counter
  <2>3. cn'.armed = cn.armed /\ cn'.pk = cn.pk /\ cn'.tr = cn.tr
    BY <1>1, <2>1 DEF Counter
  <2> QED
    BY <2>1, <2>2, <2>3 DEF HeardInv
<1>5. CASE SetFilter
  BY <1>2, <1>5 DEF SetFilter, Typed
<1>6. CASE SetGoertzel
  BY <1>2, <1>6 DEF SetGoertzel, Typed
<1>7. CASE SetThreshold
  BY <1>2, <1>7 DEF SetThreshold, Typed
<1>8. CASE SetCounter
  <2>1. heard' = heard
    BY <1>8 DEF SetCounter, Typed
  <2>2. cn'.on /\ ~cn'.reset => /\ cn.on /\ ~cn.reset /\ cn'.armed = cn.armed
                                /\ cn'.pk = cn.pk /\ cn'.tr = cn.tr
    <3>1. ASSUME NEW on \in BOOLEAN, NEW first, first = (on /\ ~cn.on),
                 cn' = [cn EXCEPT !.on = on, !.dirty = @ \/ first, !.reset = @ \/ first]
          PROVE  cn'.on /\ ~cn'.reset => /\ cn.on /\ ~cn.reset /\ cn'.armed = cn.armed
                                         /\ cn'.pk = cn.pk /\ cn'.tr = cn.tr
      <4>1. cn'.on = on /\ cn'.reset = (cn.reset \/ first)
        BY <1>1, <3>1 DEF Counter
      <4>2. cn'.armed = cn.armed /\ cn'.pk = cn.pk /\ cn'.tr = cn.tr
        BY <1>1, <3>1 DEF Counter
      <4> QED
        BY <3>1, <4>1, <4>2
    <3>2. CASE cn' = [cn EXCEPT !.reset = TRUE]
      BY <1>1, <3>2 DEF Counter
    <3>3. ASSUME NEW t \in Thresholds, cn' = [cn EXCEPT !.thr = t, !.dirty = TRUE]
          PROVE  cn'.on = cn.on /\ cn'.reset = cn.reset /\ cn'.armed = cn.armed
                 /\ cn'.pk = cn.pk /\ cn'.tr = cn.tr
      BY <1>1, <3>3 DEF Counter
    <3> QED
      BY <1>8, <3>1, <3>2, <3>3 DEF SetCounter
  <2> QED
    BY <2>1, <2>2 DEF HeardInv
<1>9. CASE UNCHANGED sigprocVars
  BY <1>2, <1>9 DEF sigprocVars
<1> QED
  BY <1>3, <1>4, <1>5, <1>6, <1>7, <1>8, <1>9 DEF SigProcNext

(* There is but one last counted before j.                                 *)
LEMMA HeardIsExact == HeardInv => ImpactsExact
<1> SUFFICES ASSUME HeardInv, NEW j \in 2 .. Len(heard)
             PROVE  LET i == CHOOSE p \in 1 .. (j - 1) :
                               heard[p].counted /\ \A o \in (p + 1) .. (j - 1) : ~heard[o].counted
                    IN  heard[j].counted <=> Impact(i, j)
  BY DEF ImpactsExact
<1>1. PICK i \in 1 .. (j - 1) : LastBefore(heard, i, j) /\ (heard[j].counted <=> ImpactAt(heard, i, j))
  BY DEF HeardInv, Exact
<1> DEFINE Last(p) == heard[p].counted /\ \A o \in (p + 1) .. (j - 1) : ~heard[o].counted
           c == CHOOSE p \in 1 .. (j - 1) : Last(p)
<1>2. Last(i)
  BY <1>1 DEF LastBefore
<1>3. ASSUME NEW p \in 1 .. (j - 1), Last(p) PROVE p = i
  <2>1. ~(p < i)
    <3>1. p < i => i \in (p + 1) .. (j - 1)
      OBVIOUS
    <3> QED
      BY <1>2, <1>3, <3>1
  <2>2. ~(i < p)
    <3>1. i < p => p \in (i + 1) .. (j - 1)
      OBVIOUS
    <3> QED
      BY <1>2, <1>3, <3>1
  <2> QED
    BY <2>1, <2>2
<1>4. c \in 1 .. (j - 1) /\ Last(c)
  BY <1>2
<1>5. c = i
  BY <1>3, <1>4
<1>6. Impact(i, j) <=> ImpactAt(heard, i, j)
  BY DEF Impact, ImpactAt, Fell, FellAt
<1> QED
  BY <1>1, <1>5, <1>6

(* The impact counter counts every impact of the rule in impact.c's head   *)
(* comment and nothing else: any magnitudes and thresholds, any number of  *)
(* blocks, with missed halves, new streams and settings between them.      *)
THEOREM ImpactsCounted == SigProcSpec => []ImpactsExact
<1>1. SigProcInit => HeardInv
  BY DEF SigProcInit, HeardInv, Exact
<1>2. HeardInv /\ Continuity /\ [SigProcNext]_sigprocVars => HeardInv'
  BY HeardStep
<1> QED
  BY <1>1, <1>2, HeardIsExact, StateIsContinuous, PTL DEF SigProcSpec

-----------------------------------------------------------------------------
(* Where the marks stand in Startup, and how many there are before `k'.    *)
MarkAt == <<3, 5, 10, 17, 19, 21, 23, 25, 26>>
Passed(k) == {i \in 1 .. (k - 1) : \E n \in 1 .. 9 : i = MarkAt[n]}

LEMMA MarksStand ==
  ASSUME NEW i \in 1 .. 26, NEW n \in 1 .. 9
  PROVE  Startup[i] = Marks[n] <=> i = MarkAt[n]
<1>1. i \in {1, 2, 3, 4, 5, 6, 7, 8, 9, 10, 11, 12, 13} \/ i \in {14, 15, 16, 17, 18, 19, 20, 21, 22, 23, 24, 25, 26}
  OBVIOUS
<1>2. n \in {1, 2, 3, 4, 5, 6, 7, 8, 9}
  OBVIOUS
<1> QED
  BY <1>1, <1>2 DEF Startup, Marks, MarkAt

LEMMA NamesStand ==
  /\ Len(Startup) = 26
  /\ \A i \in 1 .. 26 :
       /\ Startup[i] = "normalise" => i = 1
       /\ Startup[i] = "tell_traps" <=> i = 6
       /\ Startup[i] = "forget_traps" <=> i = 7
       /\ Startup[i] = "tell_chain" <=> i = 8
       /\ Startup[i] = "forget_chain" <=> i = 9
       /\ Startup[i] = "cli" => i = 18
       /\ Startup[i] \in {"led", "capture", "pll", "console", "clkfail", "park", "PLL1",
                          "PLL2", "CLKGEN1", "CLKGEN6", "adc"} => i \notin {1, 6, 7, 8}
  BY DEF Startup

(* Of two marks the later one has passed one more. *)
LEMMA MarksCount ==
  \A k \in 1 .. 27 : 
    /\ IsFiniteSet(Passed(k)) /\ Cardinality(Passed(k)) \in Nat
    /\ \A n \in 1 .. 9 : k = MarkAt[n] + 1 => Cardinality(Passed(k)) = n
    /\ k <= 3 => Cardinality(Passed(k)) = 0
<1>1. ASSUME NEW k \in 1 .. 27 PROVE IsFiniteSet(Passed(k)) /\ Cardinality(Passed(k)) \in Nat
  <2>1. IsFiniteSet(1 .. (k - 1)) /\ Passed(k) \subseteq 1 .. (k - 1)
    BY FS_Interval DEF Passed
  <2> QED
    BY <2>1, FS_Subset, FS_CardinalityType
<1>2. ASSUME NEW k \in 1 .. 3 PROVE Passed(k) = {}
  BY DEF Passed, MarkAt
<1>3. ASSUME NEW k \in 1 .. 26, NEW n \in 1 .. 9, k = MarkAt[n]
      PROVE  Cardinality(Passed(k + 1)) = Cardinality(Passed(k)) + 1
  <2>1. Passed(k + 1) = Passed(k) \cup {k} /\ k \notin Passed(k) /\ k \in 1 .. 27
    BY <1>3 DEF Passed
  <2> QED
    BY <2>1, <1>1, FS_AddElement
<1>4. ASSUME NEW k \in 1 .. 27, NEW l \in 1 .. 27, k <= l,
             \A i \in k .. (l - 1) : \A n \in 1 .. 9 : i # MarkAt[n]
      PROVE  Passed(k) = Passed(l)
  BY <1>4 DEF Passed
<1>5. Cardinality(Passed(3)) = 0
  BY <1>2, FS_EmptySet
<1>6. Cardinality(Passed(4)) = 1 /\ Passed(4) = Passed(5)
  BY <1>3, <1>4, <1>5 DEF MarkAt
<1>7. Cardinality(Passed(6)) = 2 /\ Passed(6) = Passed(10)
  BY <1>3, <1>4, <1>6 DEF MarkAt
<1>8. Cardinality(Passed(11)) = 3 /\ Passed(11) = Passed(17)
  BY <1>3, <1>4, <1>7 DEF MarkAt
<1>9. Cardinality(Passed(18)) = 4 /\ Passed(18) = Passed(19)
  BY <1>3, <1>4, <1>8 DEF MarkAt
<1>10. Cardinality(Passed(20)) = 5 /\ Passed(20) = Passed(21)
  BY <1>3, <1>4, <1>9 DEF MarkAt
<1>11. Cardinality(Passed(22)) = 6 /\ Passed(22) = Passed(23)
  BY <1>3, <1>4, <1>10 DEF MarkAt
<1>12. Cardinality(Passed(24)) = 7 /\ Passed(24) = Passed(25)
  BY <1>3, <1>4, <1>11 DEF MarkAt
<1>13. Cardinality(Passed(26)) = 8 /\ Passed(26) = Passed(26)
  BY <1>3, <1>4, <1>12 DEF MarkAt
<1>14. Cardinality(Passed(27)) = 9
  BY <1>3, <1>4, <1>13 DEF MarkAt
<1> QED
  BY <1>1, <1>2, <1>6, <1>7, <1>8, <1>9, <1>10, <1>11, <1>12, <1>13, <1>14, FS_EmptySet DEF MarkAt
(* The record in persistent RAM and the runs it is about: once it has been *)
(* cleared by a start-up it counts every trap since, names the last one    *)
(* and its stage as far as that one's record was written, and the chain    *)
(* test that has not ended.                                                *)
Recorded ==
  /\ trap_seen = traps
  /\ traps # 0 => /\ written >= 2 => trap_vec = last[1]
                  /\ written = 3 /\ last[2] # 0 => trap_stage = last[2]
(* Within the record: the handler's vector and the stage it interrupted.   *)
Recording ==
  mode \in {"seen", "vec"} =>
    /\ last = <<vec, Reached>>
    /\ written = IF mode = "seen" THEN 1 ELSE 2
    /\ mode = "vec" => trap_vec = vec
BootInv ==
  /\ Recording
  /\ at \in 1 .. 27 /\ traps \in Nat /\ trap_seen \in Nat
  /\ boot_stage \in 0 .. 10
  /\ (at > 1 \/ known) => boot_stage <= 9
  /\ at > 3 => boot_stage = Reached
  /\ known => Recorded /\ chain_mark = unfinished
  /\ mode = "main" =>
       /\ at > 7 => trap_seen = 0 /\ traps = 0
       /\ at = 7 => told = IF trap_seen # 0 THEN <<trap_seen, trap_vec, trap_stage>> ELSE <<>>
       /\ at = 9 => told = <<chain_mark>>

LEMMA BootInitial == BootInit => BootInv
  BY DEF BootInit, Fresh, BootInv, Recording

(* The marks main() has passed are those before `at'. *)
LEMMA ReachedIs ==
  /\ at \in 1 .. 27 => Reached = Cardinality(Passed(at))
  /\ at' \in 1 .. 27 => Reached' = Cardinality(Passed(at'))
<1>1. ASSUME NEW k \in 1 .. 27
      PROVE  {i \in 1 .. (k - 1) : \E n \in 1 .. 9 : Startup[i] = Marks[n]} = Passed(k)
  BY MarksStand DEF Passed
<1> QED
  BY <1>1 DEF Reached

(* What leaves `at' and the record alone, and does not go back to main().  *)
LEMMA BootStands ==
  ASSUME BootInv, UNCHANGED <<at, boot_stage, trap_seen, trap_vec, trap_stage, known, traps, last,
                              written>>,
         \/ UNCHANGED <<chain_mark, unfinished>>
         \/ chain_mark' = unfinished' /\ (mode' = "main" => at > 9),
         mode' = "main" => mode = "main" /\ told' = told,
         mode' \in {"seen", "vec"} => mode' = mode /\ vec' = vec
  PROVE  BootInv'
<1>1. Reached' = Reached
  BY DEF Reached
<1>2. Recording'
  BY <1>1 DEF BootInv, Recording
<1> QED
  BY <1>1, <1>2 DEF BootInv, Recorded

(* A step of the start-up that is not a mark. *)
LEMMA BootMoves ==
  ASSUME BootInv, NEW name, Step(name), \A n \in 1 .. 9 : name # Marks[n]
  PROVE  /\ at \in 1 .. 26 /\ at' \in 1 .. 27 /\ Startup[at] = name
         /\ Reached' = Reached
         /\ at' > 3 => at > 3
<1>1. at \in 1 .. 26 /\ at' = at + 1 /\ Startup[at] = name
  BY NamesStand DEF Step, Upcoming, BootInv
<1>2. \A n \in 1 .. 9 : at # MarkAt[n]
  BY <1>1, MarksStand
<1>3. Passed(at') = Passed(at)
  <2>1. /\ at \in 1 .. 26 /\ at' = at + 1
        /\ \A i \in 1 .. (at' - 1) : i \in 1 .. (at - 1) \/ i = at
        /\ \A i \in 1 .. (at - 1) : i \in 1 .. (at' - 1)
    BY <1>1
  <2> QED
    BY <1>2, <2>1 DEF Passed
<1>4. at # 3
  BY <1>2 DEF MarkAt
<1> QED
  BY <1>1, <1>3, <1>4, ReachedIs
(* The steps of the start-up. *)
LEMMA StartupStep ==
  ASSUME BootInv,
         Normalise \/ Plain \/ console_early_init \/ cli_init \/ EnableClockFail
  PROVE  BootInv'
<1>1. PICK name \in {"normalise", "led", "capture", "pll", "console", "cli", "clkfail"} :
           Step(name) /\ (name = "normalise" => Normalise)
  BY DEF Normalise, Plain, console_early_init, cli_init, EnableClockFail
<1>2. \A n \in 1 .. 9 : name # Marks[n]
  BY <1>1 DEF Marks
<1>3. /\ at \in 1 .. 26 /\ at' = at + 1 /\ at \notin {6, 7, 8} /\ Reached' = Reached /\ (at' > 3 => at > 3)
      /\ name = "normalise" => at = 1
      /\ name # "normalise" => at # 1
      /\ mode = "main"
  BY <1>1, <1>2, BootMoves, NamesStand DEF Step
<1>4. UNCHANGED <<mode, chain_mark, ghosts, told>>
  BY DEF Normalise, Plain, console_early_init, cli_init, EnableClockFail, Quiet, persistent
<1>5. CASE name = "normalise"
  BY <1>1, <1>3, <1>4, <1>5 DEF Normalise, BootInv, Recorded, Recording, ghosts
<1>6. CASE name # "normalise"
  <2>1. UNCHANGED persistent
    BY <1>1, <1>6 DEF Normalise, Plain, console_early_init, cli_init, EnableClockFail, Step, Upcoming
  <2> QED
    BY <1>3, <1>4, <1>6, <2>1 DEF BootInv, Recorded, Recording, ghosts, persistent
<1> QED
  BY <1>5, <1>6

LEMMA WaitsStep ==
  ASSUME BootInv, Waits PROVE BootInv'
<1>1. PICK w \in {"park", "PLL1", "PLL2", "CLKGEN1", "CLKGEN6", "adc"} :
        \/ Step(w) /\ UNCHANGED mode
        \/ mode' = "fail" /\ UNCHANGED at
  BY DEF Waits, fail
<1>2. UNCHANGED <<persistent, ghosts, told>>
  BY DEF Waits
<1>3. CASE mode' = "fail" /\ UNCHANGED at
  BY <1>2, <1>3, BootStands DEF persistent, ghosts
<1>4. CASE Step(w) /\ UNCHANGED mode
  <2>1. \A n \in 1 .. 9 : w # Marks[n]
    BY DEF Marks
  <2>2. /\ at \in 1 .. 26 /\ at' = at + 1 /\ at \notin {1, 6, 7, 8} /\ Reached' = Reached
        /\ (at' > 3 => at > 3)
    BY <1>4, <2>1, BootMoves, NamesStand DEF Step
  <2>3. mode = "main"
    BY <1>4 DEF Step
  <2> QED
    BY <1>2, <1>4, <2>2, <2>3 DEF BootInv, Recorded, Recording, ghosts, persistent
<1> QED
  BY <1>1, <1>3, <1>4

LEMMA MarkStep ==
  ASSUME BootInv, boot_mark PROVE BootInv'
<1>1. PICK n \in 1 .. 9 : Step(Marks[n]) /\ boot_stage' = n
  BY DEF boot_mark
<1>2. at \in 1 .. 26 /\ at' = at + 1 /\ Startup[at] = Marks[n] /\ mode = "main"
  <2>1. Step(Marks[n])
    BY <1>1
  <2> QED
    BY <2>1, NamesStand DEF Step, Upcoming, BootInv
<1>3. at = MarkAt[n]
  BY <1>2, MarksStand
<1>4. Reached' = n
  BY <1>2, <1>3, MarksCount, ReachedIs
<1>5. at \notin {1, 6, 7, 8}
  BY <1>3 DEF MarkAt
<1>6. UNCHANGED <<trap_seen, trap_vec, trap_stage, chain_mark, ghosts, told, mode>>
  BY DEF boot_mark, Quiet
<1> QED
  BY <1>1, <1>2, <1>4, <1>5, <1>6 DEF BootInv, Recorded, Recording, ghosts

(* What the last run left is told, and then forgotten. *)
LEMMA TellStep ==
  ASSUME BootInv, TellTraps \/ ForgetTraps \/ TellChain \/ ForgetChain PROVE BootInv'
<1>1. PICK name \in {"tell_traps", "forget_traps", "tell_chain", "forget_chain"} :
           Step(name)
  BY DEF TellTraps, ForgetTraps, TellChain, ForgetChain
<1>2. \A n \in 1 .. 9 : name # Marks[n]
  BY DEF Marks
<1>3. /\ at \in 6 .. 9 /\ at' = at + 1 /\ mode = "main" /\ mode' = mode /\ Reached' = Reached
  <2>1. at \in 1 .. 26 /\ Startup[at] = name /\ Reached' = Reached
    BY <1>1, <1>2, BootMoves
  <2>2. at \in 6 .. 9
    BY <1>1, <2>1, NamesStand
  <2>3. at' = at + 1 /\ mode = "main"
    BY <1>1 DEF Step
  <2>4. mode' = mode
    BY DEF TellTraps, ForgetTraps, TellChain, ForgetChain, Quiet
  <2> QED
    BY <2>1, <2>2, <2>3, <2>4
<1>4. CASE TellTraps
  <2>1. at = 6
    <3>1. Startup[at] = "tell_traps"
      BY <1>4 DEF TellTraps, Step, Upcoming
    <3>2. \A i \in 1 .. 26 : Startup[i] = "tell_traps" => i = 6
      BY NamesStand
    <3> QED
      BY <1>3, <3>1, <3>2
  <2> QED
    BY <1>3, <1>4, <2>1 DEF TellTraps, BootInv, Recorded, Recording, persistent, ghosts
<1>5. CASE ForgetTraps
  <2>1. at = 7
    BY <1>3, <1>5, NamesStand DEF ForgetTraps, Step, Upcoming
  <2> QED
    BY <1>3, <1>5, <2>1 DEF ForgetTraps, BootInv, Recorded, Recording
<1>6. CASE TellChain
  <2>1. at = 8
    BY <1>3, <1>6, NamesStand DEF TellChain, Step, Upcoming
  <2> QED
    BY <1>3, <1>6, <2>1 DEF TellChain, BootInv, Recorded, Recording, persistent, ghosts
<1>7. CASE ForgetChain
  <2>1. at = 9
    BY <1>3, <1>7, NamesStand DEF ForgetChain, Step, Upcoming
  <2> QED
    BY <1>3, <1>7, <2>1 DEF ForgetChain, BootInv, Recorded, Recording
<1> QED
  BY <1>4, <1>5, <1>6, <1>7

(* A trap records itself before anything else, a word at a time. *)
LEMMA TrapStep ==
  ASSUME BootInv, Trap \/ TrapVec \/ TrapStage PROVE BootInv'
<1>1. Reached' = Reached
  BY DEF Trap, TrapVec, TrapStage, Reached
<1>2. at <= 3 => Reached = 0
  BY MarksCount, ReachedIs DEF BootInv
<1>3. CASE Trap
  BY <1>1, <1>3 DEF Trap, BootInv, Recorded, Recording
<1>4. CASE TrapVec
  BY <1>1, <1>4 DEF TrapVec, BootInv, Recorded, Recording
<1>5. CASE TrapStage
  <2>1. last[2] # 0 => boot_stage = last[2]
    BY <1>2, <1>5 DEF TrapStage, BootInv, Recording
  <2> QED
    BY <1>1, <1>5, <2>1 DEF TrapStage, BootInv, Recorded, Recording
<1> QED
  BY <1>3, <1>4, <1>5

LEMMA ResetStep ==
  ASSUME BootInv, Reset \/ Restart PROVE BootInv'
<1>1. at' = 1 /\ mode' = "main" /\ UNCHANGED <<persistent, ghosts>>
  BY DEF Reset, Restart, Reboot
<1> QED
  BY <1>1 DEF BootInv, Recorded, Recording, persistent, ghosts

(* The main loop, the commands and the stops. *)
LEMMA RunStep ==
  ASSUME BootInv,
         Command \/ ChainNext \/ CaptureStop \/ MainPass \/ FailReport \/ TrapReport \/ ClockFail
  PROVE  BootInv'
<1>1. CASE MainPass
  BY <1>1, BootStands DEF MainPass, Fixed, fail
<1>2. CASE FailReport \/ TrapReport \/ ClockFail
  BY <1>2, BootStands DEF FailReport, TrapReport, ClockFail, fail, persistent, ghosts
<1>3. CASE Command \/ ChainNext \/ CaptureStop
  <2>1. mode' = mode /\ Fixed /\ (chain_mark' = unfinished' \/ UNCHANGED <<chain_mark, unfinished>>)
    BY <1>3 DEF Command, ChainNext, CaptureStop
  <2>2. at > 9
    <3>1. PICK i \in 1 .. (at - 1) : Startup[i] = "cli"
      BY <1>3 DEF Command, ChainNext, CaptureStop, Listening, Past
    <3>2. at \in 1 .. 27
      BY DEF BootInv
    <3>3. \A j \in 1 .. 26 : Startup[j] = "cli" => j = 18
      BY NamesStand
    <3>4. i \in 1 .. 26 /\ i < at
      BY <3>2
    <3>5. i = 18
      BY <3>1, <3>3, <3>4
    <3> QED
      BY <3>2, <3>4, <3>5
  <2> QED
    BY <2>1, <2>2, BootStands DEF Fixed
<1> QED
  BY <1>1, <1>2, <1>3

(* The next boot tells what the runs before it ended with, however they    *)
(* ended, a reset between any two stores of the trap record included: how  *)
(* many traps always, the last one's vector and stage as far as its record *)
(* was written, and the chain test's stage (LastRunTold): the trap         *)
(* handler's record, diag.c's report and its clearing, for any trap        *)
(* vectors, chain stages and wait limit.                                   *)
THEOREM NextBootTells == BootSpec => []LastRunTold
<1>1. BootInv /\ [BootNext]_bootVars => BootInv'
  <2> SUFFICES ASSUME BootInv, [BootNext]_bootVars PROVE BootInv'
    OBVIOUS
  <2>1. CASE UNCHANGED bootVars
    BY <2>1, BootStands DEF bootVars, persistent, control, ghosts
  <2>2. CASE BootNext
    BY <2>2, StartupStep, WaitsStep, MarkStep, TellStep, TrapStep, ResetStep, RunStep
       DEF BootNext
  <2> QED
    BY <2>1, <2>2
<1>2. BootInv => LastRunTold
  <2> SUFFICES ASSUME BootInv, mode = "main", known PROVE LastRunTold
    BY DEF LastRunTold
  <2>1. /\ Upcoming("forget_traps") => at = 7
        /\ Upcoming("forget_chain") => at = 9
    <3>1. at \in 1 .. 27
      BY DEF BootInv
    <3>2. \A i \in 1 .. 26 : /\ Startup[i] = "forget_traps" => i = 7
                             /\ Startup[i] = "forget_chain" => i = 9
      BY NamesStand
    <3>3. Len(Startup) = 26
      BY NamesStand
    <3> QED
      BY <3>1, <3>2, <3>3 DEF Upcoming
  <2> QED
    BY <2>1 DEF BootInv, Recorded, LastRunTold
<1> QED
  BY <1>1, <1>2, BootInitial, PTL DEF BootSpec

(***************************************************************************)
(* Clock: the rate that "rate" finds.  The search tries one feedback       *)
(* divider per pair, the rounded one, and compares whole kSPS.             *)
(***************************************************************************)
(* A setting of the PLL is a product of its output dividers, and fb.       *)
Products == {1, 2, 3, 4, 5, 6, 7, 8, 9, 10, 12, 14, 15, 16, 18, 20, 21, 24, 25, 28, 30, 35, 36, 42, 49}

LEMMA ProductNat ==
  ASSUME NEW q \in Products PROVE q \in Nat /\ q > 0
  BY DEF Products

LEMMA SmallerFactor ==
  ASSUME NEW q \in Nat, q > 0, NEW x \in Nat, NEW y \in Nat, q * x < q * y
  PROVE  x < y
  BY SMT

LEMMA Spread ==
  ASSUME NEW q \in Nat, NEW k \in Nat, NEW e \in Nat
  PROVE  q * (8 * k) = 8 * (q * k) /\ q * (e + 1) = q * e + q /\ q * (8 * k + 8) = 8 * (q * k) + 8 * q
  BY SMT

LEMMA ProductOf ==
  ASSUME NEW p \in Pairs PROVE p[1] * p[2] \in Products
<1>1. p[1] \in 1 .. 7 /\ p[2] \in 1 .. 7 /\ p[2] <= p[1]
  BY DEF Pairs
<1>2. CASE p[1] \in {1, 2, 3}
  BY <1>1, <1>2 DEF Products
<1>3. CASE p[1] \in {4, 5}
  BY <1>1, <1>3 DEF Products
<1>4. CASE p[1] = 6
  BY <1>1, <1>4 DEF Products
<1>5. CASE p[1] = 7
  BY <1>1, <1>5 DEF Products
<1> QED
  BY <1>1, <1>2, <1>3, <1>4, <1>5

LEMMA TimesNat ==
  ASSUME NEW a \in Nat, NEW b \in Nat PROVE a * b \in Nat
  BY SMT

LEMMA Quotient ==
  ASSUME NEW a \in Nat, NEW q \in Nat, q > 0
  PROVE  a \div q \in Nat /\ q * (a \div q) <= a /\ a < q * (a \div q) + q
  BY SMT

(* What the search makes of the wish w with the product q.                 *)
Wish == {w \in Nat : InRange(w)}
FbAt(w, q)   == (w * q + 500) \div 1000
RateAt(w, q) == rate_of(FbAt(w, q), q)

(* Without the division: fb at the output dividers q gives the rate k; the *)
(* search looks at fb for the wish w.                                      *)
RateIs(fb, q, k) == q * k <= fb * 1000 /\ fb * 1000 < q * k + q
Found(w, q, fb, k) ==
  /\ 1000 * fb <= w * q + 500 /\ w * q + 500 < 1000 * fb + 1000
  /\ RateIs(fb, q, k)
Allowed(fb, k) == 63 <= fb /\ fb <= 200 /\ 4000 <= k /\ k <= 40000
AsNear(w, fb, k, m) == Allowed(fb, k) /\ Far(k, w) <= Far(m, w)

(* Whatever a feedback divider makes of a product, the search finds        *)
(* something as near with that product or with one of two or three others: *)
(* the rounded divider of the product itself can be off by one, where the  *)
(* rate is cut off to whole kSPS, and can be out of the VCO's range.       *)
LEMMA Near2 ==
  ASSUME NEW w \in Int, 4000 <= w, w <= 40000,
         NEW fb \in Int, NEW m \in Int, Allowed(fb, m), RateIs(fb, 2, m),
         NEW f0 \in Int, NEW k0 \in Int, NEW f1 \in Int, NEW k1 \in Int, NEW f2 \in Int, NEW k2 \in Int,
         Found(w, 2, f0, k0), Found(w, 6, f1, k1), Found(w, 16, f2, k2)
  PROVE  AsNear(w, f0, k0, m) \/ AsNear(w, f1, k1, m) \/ AsNear(w, f2, k2, m)
  BY SMTT(60) DEF AsNear, Allowed, Found, RateIs, Far
LEMMA Near3 ==
  ASSUME NEW w \in Int, 4000 <= w, w <= 40000,
         NEW fb \in Int, NEW m \in Int, Allowed(fb, m), RateIs(fb, 3, m),
         NEW f0 \in Int, NEW k0 \in Int, NEW f1 \in Int, NEW k1 \in Int, NEW f2 \in Int, NEW k2 \in Int,
         Found(w, 3, f0, k0), Found(w, 9, f1, k1), Found(w, 16, f2, k2)
  PROVE  AsNear(w, f0, k0, m) \/ AsNear(w, f1, k1, m) \/ AsNear(w, f2, k2, m)
  BY SMTT(60) DEF AsNear, Allowed, Found, RateIs, Far
LEMMA Near4 ==
  ASSUME NEW w \in Int, 4000 <= w, w <= 40000,
         NEW fb \in Int, NEW m \in Int, Allowed(fb, m), RateIs(fb, 4, m),
         NEW f0 \in Int, NEW k0 \in Int, NEW f1 \in Int, NEW k1 \in Int, NEW f2 \in Int, NEW k2 \in Int,
         Found(w, 4, f0, k0), Found(w, 12, f1, k1), Found(w, 16, f2, k2)
  PROVE  AsNear(w, f0, k0, m) \/ AsNear(w, f1, k1, m) \/ AsNear(w, f2, k2, m)
  BY SMTT(60) DEF AsNear, Allowed, Found, RateIs, Far
LEMMA Near5 ==
  ASSUME NEW w \in Int, 4000 <= w, w <= 40000,
         NEW fb \in Int, NEW m \in Int, Allowed(fb, m), RateIs(fb, 5, m),
         NEW f0 \in Int, NEW k0 \in Int, NEW f1 \in Int, NEW k1 \in Int,
         Found(w, 5, f0, k0), Found(w, 16, f1, k1)
  PROVE  AsNear(w, f0, k0, m) \/ AsNear(w, f1, k1, m)
  BY SMTT(60) DEF AsNear, Allowed, Found, RateIs, Far
LEMMA Near6 ==
  ASSUME NEW w \in Int, 4000 <= w, w <= 40000,
         NEW fb \in Int, NEW m \in Int, Allowed(fb, m), RateIs(fb, 6, m),
         NEW f0 \in Int, NEW k0 \in Int, NEW f1 \in Int, NEW k1 \in Int, NEW f2 \in Int, NEW k2 \in Int,
         Found(w, 6, f0, k0), Found(w, 2, f1, k1), Found(w, 16, f2, k2)
  PROVE  AsNear(w, f0, k0, m) \/ AsNear(w, f1, k1, m) \/ AsNear(w, f2, k2, m)
  BY SMTT(60) DEF AsNear, Allowed, Found, RateIs, Far
LEMMA Near7 ==
  ASSUME NEW w \in Int, 4000 <= w, w <= 40000,
         NEW fb \in Int, NEW m \in Int, Allowed(fb, m), RateIs(fb, 7, m),
         NEW f0 \in Int, NEW k0 \in Int, NEW f1 \in Int, NEW k1 \in Int, NEW f2 \in Int, NEW k2 \in Int,
         Found(w, 7, f0, k0), Found(w, 5, f1, k1), Found(w, 16, f2, k2)
  PROVE  AsNear(w, f0, k0, m) \/ AsNear(w, f1, k1, m) \/ AsNear(w, f2, k2, m)
  BY SMTT(60) DEF AsNear, Allowed, Found, RateIs, Far
LEMMA Near8 ==
  ASSUME NEW w \in Int, 4000 <= w, w <= 40000,
         NEW fb \in Int, NEW m \in Int, Allowed(fb, m), RateIs(fb, 8, m),
         NEW f0 \in Int, NEW k0 \in Int, NEW f1 \in Int, NEW k1 \in Int, NEW f2 \in Int, NEW k2 \in Int,
         Found(w, 8, f0, k0), Found(w, 3, f1, k1), Found(w, 16, f2, k2)
  PROVE  AsNear(w, f0, k0, m) \/ AsNear(w, f1, k1, m) \/ AsNear(w, f2, k2, m)
  BY SMTT(60) DEF AsNear, Allowed, Found, RateIs, Far
LEMMA Near9 ==
  ASSUME NEW w \in Int, 4000 <= w, w <= 40000,
         NEW fb \in Int, NEW m \in Int, Allowed(fb, m), RateIs(fb, 9, m),
         NEW f0 \in Int, NEW k0 \in Int, NEW f1 \in Int, NEW k1 \in Int,
         NEW f2 \in Int, NEW k2 \in Int, NEW f3 \in Int, NEW k3 \in Int,
         Found(w, 9, f0, k0), Found(w, 4, f1, k1), Found(w, 16, f2, k2), Found(w, 7, f3, k3)
  PROVE  AsNear(w, f0, k0, m) \/ AsNear(w, f1, k1, m) \/ AsNear(w, f2, k2, m) \/ AsNear(w, f3, k3, m)
  BY SMTT(60) DEF AsNear, Allowed, Found, RateIs, Far
LEMMA Near10 ==
  ASSUME NEW w \in Int, 4000 <= w, w <= 40000,
         NEW fb \in Int, NEW m \in Int, Allowed(fb, m), RateIs(fb, 10, m),
         NEW f0 \in Int, NEW k0 \in Int, NEW f1 \in Int, NEW k1 \in Int, NEW f2 \in Int, NEW k2 \in Int,
         Found(w, 10, f0, k0), Found(w, 4, f1, k1), Found(w, 16, f2, k2)
  PROVE  AsNear(w, f0, k0, m) \/ AsNear(w, f1, k1, m) \/ AsNear(w, f2, k2, m)
  BY SMTT(60) DEF AsNear, Allowed, Found, RateIs, Far
LEMMA Near12 ==
  ASSUME NEW w \in Int, 4000 <= w, w <= 40000,
         NEW fb \in Int, NEW m \in Int, Allowed(fb, m), RateIs(fb, 12, m),
         NEW f0 \in Int, NEW k0 \in Int, NEW f1 \in Int, NEW k1 \in Int, NEW f2 \in Int, NEW k2 \in Int,
         Found(w, 12, f0, k0), Found(w, 4, f1, k1), Found(w, 16, f2, k2)
  PROVE  AsNear(w, f0, k0, m) \/ AsNear(w, f1, k1, m) \/ AsNear(w, f2, k2, m)
  BY SMTT(60) DEF AsNear, Allowed, Found, RateIs, Far
LEMMA Near14 ==
  ASSUME NEW w \in Int, 4000 <= w, w <= 40000,
         NEW fb \in Int, NEW m \in Int, Allowed(fb, m), RateIs(fb, 14, m),
         NEW f0 \in Int, NEW k0 \in Int, NEW f1 \in Int, NEW k1 \in Int,
         NEW f2 \in Int, NEW k2 \in Int, NEW f3 \in Int, NEW k3 \in Int,
         Found(w, 14, f0, k0), Found(w, 5, f1, k1), Found(w, 16, f2, k2), Found(w, 7, f3, k3)
  PROVE  AsNear(w, f0, k0, m) \/ AsNear(w, f1, k1, m) \/ AsNear(w, f2, k2, m) \/ AsNear(w, f3, k3, m)
  BY SMTT(60) DEF AsNear, Allowed, Found, RateIs, Far
LEMMA Near15 ==
  ASSUME NEW w \in Int, 4000 <= w, w <= 40000,
         NEW fb \in Int, NEW m \in Int, Allowed(fb, m), RateIs(fb, 15, m),
         NEW f0 \in Int, NEW k0 \in Int, NEW f1 \in Int, NEW k1 \in Int, NEW f2 \in Int, NEW k2 \in Int,
         Found(w, 15, f0, k0), Found(w, 5, f1, k1), Found(w, 16, f2, k2)
  PROVE  AsNear(w, f0, k0, m) \/ AsNear(w, f1, k1, m) \/ AsNear(w, f2, k2, m)
  BY SMTT(60) DEF AsNear, Allowed, Found, RateIs, Far
LEMMA Near16 ==
  ASSUME NEW w \in Int, 4000 <= w, w <= 40000,
         NEW fb \in Int, NEW m \in Int, Allowed(fb, m), RateIs(fb, 16, m),
         NEW f0 \in Int, NEW k0 \in Int, NEW f1 \in Int, NEW k1 \in Int, NEW f2 \in Int, NEW k2 \in Int,
         Found(w, 16, f0, k0), Found(w, 5, f1, k1), Found(w, 6, f2, k2)
  PROVE  AsNear(w, f0, k0, m) \/ AsNear(w, f1, k1, m) \/ AsNear(w, f2, k2, m)
  BY SMTT(60) DEF AsNear, Allowed, Found, RateIs, Far
LEMMA Near18 ==
  ASSUME NEW w \in Int, 4000 <= w, w <= 40000,
         NEW fb \in Int, NEW m \in Int, Allowed(fb, m), RateIs(fb, 18, m),
         NEW f0 \in Int, NEW k0 \in Int, NEW f1 \in Int, NEW k1 \in Int, NEW f2 \in Int, NEW k2 \in Int,
         Found(w, 18, f0, k0), Found(w, 5, f1, k1), Found(w, 16, f2, k2)
  PROVE  AsNear(w, f0, k0, m) \/ AsNear(w, f1, k1, m) \/ AsNear(w, f2, k2, m)
  BY SMTT(60) DEF AsNear, Allowed, Found, RateIs, Far
LEMMA Near20 ==
  ASSUME NEW w \in Int, 4000 <= w, w <= 40000,
         NEW fb \in Int, NEW m \in Int, Allowed(fb, m), RateIs(fb, 20, m),
         NEW f0 \in Int, NEW k0 \in Int, NEW f1 \in Int, NEW k1 \in Int, NEW f2 \in Int, NEW k2 \in Int,
         Found(w, 20, f0, k0), Found(w, 5, f1, k1), Found(w, 7, f2, k2)
  PROVE  AsNear(w, f0, k0, m) \/ AsNear(w, f1, k1, m) \/ AsNear(w, f2, k2, m)
  BY SMTT(60) DEF AsNear, Allowed, Found, RateIs, Far
LEMMA Near21 ==
  ASSUME NEW w \in Int, 4000 <= w, w <= 40000,
         NEW fb \in Int, NEW m \in Int, Allowed(fb, m), RateIs(fb, 21, m),
         NEW f0 \in Int, NEW k0 \in Int, NEW f1 \in Int, NEW k1 \in Int, NEW f2 \in Int, NEW k2 \in Int,
         Found(w, 21, f0, k0), Found(w, 5, f1, k1), Found(w, 16, f2, k2)
  PROVE  AsNear(w, f0, k0, m) \/ AsNear(w, f1, k1, m) \/ AsNear(w, f2, k2, m)
  BY SMTT(60) DEF AsNear, Allowed, Found, RateIs, Far
LEMMA Near24 ==
  ASSUME NEW w \in Int, 4000 <= w, w <= 40000,
         NEW fb \in Int, NEW m \in Int, Allowed(fb, m), RateIs(fb, 24, m),
         NEW f0 \in Int, NEW k0 \in Int, NEW f1 \in Int, NEW k1 \in Int, NEW f2 \in Int, NEW k2 \in Int,
         Found(w, 24, f0, k0), Found(w, 5, f1, k1), Found(w, 8, f2, k2)
  PROVE  AsNear(w, f0, k0, m) \/ AsNear(w, f1, k1, m) \/ AsNear(w, f2, k2, m)
  BY SMTT(60) DEF AsNear, Allowed, Found, RateIs, Far
LEMMA Near25 ==
  ASSUME NEW w \in Int, 4000 <= w, w <= 40000,
         NEW fb \in Int, NEW m \in Int, Allowed(fb, m), RateIs(fb, 25, m),
         NEW f0 \in Int, NEW k0 \in Int, NEW f1 \in Int, NEW k1 \in Int, NEW f2 \in Int, NEW k2 \in Int,
         Found(w, 25, f0, k0), Found(w, 5, f1, k1), Found(w, 8, f2, k2)
  PROVE  AsNear(w, f0, k0, m) \/ AsNear(w, f1, k1, m) \/ AsNear(w, f2, k2, m)
  BY SMTT(60) DEF AsNear, Allowed, Found, RateIs, Far
LEMMA Near28 ==
  ASSUME NEW w \in Int, 4000 <= w, w <= 40000,
         NEW fb \in Int, NEW m \in Int, Allowed(fb, m), RateIs(fb, 28, m),
         NEW f0 \in Int, NEW k0 \in Int, NEW f1 \in Int, NEW k1 \in Int, NEW f2 \in Int, NEW k2 \in Int,
         Found(w, 28, f0, k0), Found(w, 5, f1, k1), Found(w, 12, f2, k2)
  PROVE  AsNear(w, f0, k0, m) \/ AsNear(w, f1, k1, m) \/ AsNear(w, f2, k2, m)
  BY SMTT(60) DEF AsNear, Allowed, Found, RateIs, Far
LEMMA Near30 ==
  ASSUME NEW w \in Int, 4000 <= w, w <= 40000,
         NEW fb \in Int, NEW m \in Int, Allowed(fb, m), RateIs(fb, 30, m),
         NEW f0 \in Int, NEW k0 \in Int, NEW f1 \in Int, NEW k1 \in Int, NEW f2 \in Int, NEW k2 \in Int,
         Found(w, 30, f0, k0), Found(w, 5, f1, k1), Found(w, 10, f2, k2)
  PROVE  AsNear(w, f0, k0, m) \/ AsNear(w, f1, k1, m) \/ AsNear(w, f2, k2, m)
  BY SMTT(60) DEF AsNear, Allowed, Found, RateIs, Far
LEMMA Near35 ==
  ASSUME NEW w \in Int, 4000 <= w, w <= 40000,
         NEW fb \in Int, NEW m \in Int, Allowed(fb, m), RateIs(fb, 35, m),
         NEW f0 \in Int, NEW k0 \in Int, NEW f1 \in Int, NEW k1 \in Int,
         NEW f2 \in Int, NEW k2 \in Int, NEW f3 \in Int, NEW k3 \in Int,
         Found(w, 35, f0, k0), Found(w, 5, f1, k1), Found(w, 14, f2, k2), Found(w, 20, f3, k3)
  PROVE  AsNear(w, f0, k0, m) \/ AsNear(w, f1, k1, m) \/ AsNear(w, f2, k2, m) \/ AsNear(w, f3, k3, m)
  BY SMTT(60) DEF AsNear, Allowed, Found, RateIs, Far
LEMMA Near36 ==
  ASSUME NEW w \in Int, 4000 <= w, w <= 40000,
         NEW fb \in Int, NEW m \in Int, Allowed(fb, m), RateIs(fb, 36, m),
         NEW f0 \in Int, NEW k0 \in Int, NEW f1 \in Int, NEW k1 \in Int, NEW f2 \in Int, NEW k2 \in Int,
         Found(w, 36, f0, k0), Found(w, 5, f1, k1), Found(w, 12, f2, k2)
  PROVE  AsNear(w, f0, k0, m) \/ AsNear(w, f1, k1, m) \/ AsNear(w, f2, k2, m)
  BY SMTT(60) DEF AsNear, Allowed, Found, RateIs, Far
LEMMA Near42 ==
  ASSUME NEW w \in Int, 4000 <= w, w <= 40000,
         NEW fb \in Int, NEW m \in Int, Allowed(fb, m), RateIs(fb, 42, m),
         NEW f0 \in Int, NEW k0 \in Int, NEW f1 \in Int, NEW k1 \in Int,
         NEW f2 \in Int, NEW k2 \in Int, NEW f3 \in Int, NEW k3 \in Int,
         Found(w, 42, f0, k0), Found(w, 5, f1, k1), Found(w, 14, f2, k2), Found(w, 16, f3, k3)
  PROVE  AsNear(w, f0, k0, m) \/ AsNear(w, f1, k1, m) \/ AsNear(w, f2, k2, m) \/ AsNear(w, f3, k3, m)
  BY SMTT(60) DEF AsNear, Allowed, Found, RateIs, Far
LEMMA Near49 ==
  ASSUME NEW w \in Int, 4000 <= w, w <= 40000,
         NEW fb \in Int, NEW m \in Int, Allowed(fb, m), RateIs(fb, 49, m),
         NEW f0 \in Int, NEW k0 \in Int, NEW f1 \in Int, NEW k1 \in Int,
         NEW f2 \in Int, NEW k2 \in Int, NEW f3 \in Int, NEW k3 \in Int,
         Found(w, 49, f0, k0), Found(w, 5, f1, k1), Found(w, 16, f2, k2), Found(w, 20, f3, k3)
  PROVE  AsNear(w, f0, k0, m) \/ AsNear(w, f1, k1, m) \/ AsNear(w, f2, k2, m) \/ AsNear(w, f3, k3, m)
  BY SMTT(60) DEF AsNear, Allowed, Found, RateIs, Far

LEMMA FoundAt ==
  ASSUME NEW w \in Wish, NEW r \in Products
  PROVE  FbAt(w, r) \in Nat /\ RateAt(w, r) \in Nat /\ Found(w, r, FbAt(w, r), RateAt(w, r))
<1>1. r \in Nat /\ r > 0 /\ w \in Nat
  BY DEF Products, Wish
<1>2. w * r + 500 \in Nat
  <2> DEFINE x == w * r
  <2>1. x \in Nat
    BY <1>1, TimesNat
  <2> HIDE DEF x
  <2>2. x + 500 \in Nat
    BY <2>1
  <2> QED
    BY <2>2 DEF x
<1> DEFINE a == w * r + 500
           f == FbAt(w, r)
<1>3. f \in Nat /\ 1000 * f <= a /\ a < 1000 * f + 1000
  BY <1>2, Quotient DEF FbAt
<1> HIDE DEF f
<1> DEFINE b == f * 1000
<1>4. b \in Nat /\ RateAt(w, r) = b \div r
  BY <1>3 DEF rate_of, RateAt, f
<1> HIDE DEF b
<1>5. RateAt(w, r) \in Nat /\ r * RateAt(w, r) <= b /\ b < r * RateAt(w, r) + r
  BY <1>1, <1>4, Quotient
<1> QED
  BY <1>3, <1>5 DEF Found, RateIs, f, b

LEMMA SomeNear ==
  ASSUME NEW w \in Wish, NEW q \in Products, NEW fb \in FbDivs, InRange(rate_of(fb, q))
  PROVE  \E r \in Products : AsNear(w, FbAt(w, r), RateAt(w, r), rate_of(fb, q))
<1> DEFINE m == rate_of(fb, q)
<1>1. \A r \in Products : FbAt(w, r) \in Nat /\ RateAt(w, r) \in Nat /\ Found(w, r, FbAt(w, r), RateAt(w, r))
  BY FoundAt
<1>2. fb \in Int /\ w \in Int /\ 4000 <= w /\ w <= 40000
  BY DEF FbDivs, Wish, InRange
<1>3. m \in Int /\ Allowed(fb, m) /\ RateIs(fb, q, m)
  <2> DEFINE b == fb * 1000
  <2>1. b \in Nat
    BY DEF FbDivs
  <2>2. m = b \div q
    BY DEF rate_of
  <2>3. q \in Nat /\ q > 0
    BY DEF Products
  <2> HIDE DEF b, m
  <2>4. m \in Nat /\ q * m <= b /\ b < q * m + q
    BY <2>1, <2>2, <2>3, Quotient
  <2>5. InRange(m)
    BY DEF m
  <2> QED
    BY <2>4, <2>5 DEF Allowed, RateIs, InRange, FbDivs, b
<1> HIDE DEF m
<1>4. CASE q = 2
  <2>1. {2, 6, 16} \subseteq Products
    BY DEF Products
  <2>2. RateIs(fb, 2, m)
    BY <1>3, <1>4
  <2>3. FbAt(w, 2) \in Int /\ RateAt(w, 2) \in Int /\ Found(w, 2, FbAt(w, 2), RateAt(w, 2))
    BY <1>1, <2>1
  <2>4. FbAt(w, 6) \in Int /\ RateAt(w, 6) \in Int /\ Found(w, 6, FbAt(w, 6), RateAt(w, 6))
    BY <1>1, <2>1
  <2>5. FbAt(w, 16) \in Int /\ RateAt(w, 16) \in Int /\ Found(w, 16, FbAt(w, 16), RateAt(w, 16))
    BY <1>1, <2>1
  <2>6. \/ AsNear(w, FbAt(w, 2), RateAt(w, 2), m)
        \/ AsNear(w, FbAt(w, 6), RateAt(w, 6), m)
        \/ AsNear(w, FbAt(w, 16), RateAt(w, 16), m)
    BY <1>2, <1>3, <2>2, <2>3, <2>4, <2>5, Near2
  <2> QED
    BY <2>1, <2>6 DEF m
<1>5. CASE q = 3
  <2>1. {3, 9, 16} \subseteq Products
    BY DEF Products
  <2>2. RateIs(fb, 3, m)
    BY <1>3, <1>5
  <2>3. FbAt(w, 3) \in Int /\ RateAt(w, 3) \in Int /\ Found(w, 3, FbAt(w, 3), RateAt(w, 3))
    BY <1>1, <2>1
  <2>4. FbAt(w, 9) \in Int /\ RateAt(w, 9) \in Int /\ Found(w, 9, FbAt(w, 9), RateAt(w, 9))
    BY <1>1, <2>1
  <2>5. FbAt(w, 16) \in Int /\ RateAt(w, 16) \in Int /\ Found(w, 16, FbAt(w, 16), RateAt(w, 16))
    BY <1>1, <2>1
  <2>6. \/ AsNear(w, FbAt(w, 3), RateAt(w, 3), m)
        \/ AsNear(w, FbAt(w, 9), RateAt(w, 9), m)
        \/ AsNear(w, FbAt(w, 16), RateAt(w, 16), m)
    BY <1>2, <1>3, <2>2, <2>3, <2>4, <2>5, Near3
  <2> QED
    BY <2>1, <2>6 DEF m
<1>6. CASE q = 4
  <2>1. {4, 12, 16} \subseteq Products
    BY DEF Products
  <2>2. RateIs(fb, 4, m)
    BY <1>3, <1>6
  <2>3. FbAt(w, 4) \in Int /\ RateAt(w, 4) \in Int /\ Found(w, 4, FbAt(w, 4), RateAt(w, 4))
    BY <1>1, <2>1
  <2>4. FbAt(w, 12) \in Int /\ RateAt(w, 12) \in Int /\ Found(w, 12, FbAt(w, 12), RateAt(w, 12))
    BY <1>1, <2>1
  <2>5. FbAt(w, 16) \in Int /\ RateAt(w, 16) \in Int /\ Found(w, 16, FbAt(w, 16), RateAt(w, 16))
    BY <1>1, <2>1
  <2>6. \/ AsNear(w, FbAt(w, 4), RateAt(w, 4), m)
        \/ AsNear(w, FbAt(w, 12), RateAt(w, 12), m)
        \/ AsNear(w, FbAt(w, 16), RateAt(w, 16), m)
    BY <1>2, <1>3, <2>2, <2>3, <2>4, <2>5, Near4
  <2> QED
    BY <2>1, <2>6 DEF m
<1>7. CASE q = 5
  <2>1. {5, 16} \subseteq Products
    BY DEF Products
  <2>2. RateIs(fb, 5, m)
    BY <1>3, <1>7
  <2>3. FbAt(w, 5) \in Int /\ RateAt(w, 5) \in Int /\ Found(w, 5, FbAt(w, 5), RateAt(w, 5))
    BY <1>1, <2>1
  <2>4. FbAt(w, 16) \in Int /\ RateAt(w, 16) \in Int /\ Found(w, 16, FbAt(w, 16), RateAt(w, 16))
    BY <1>1, <2>1
  <2>5. \/ AsNear(w, FbAt(w, 5), RateAt(w, 5), m)
        \/ AsNear(w, FbAt(w, 16), RateAt(w, 16), m)
    BY <1>2, <1>3, <2>2, <2>3, <2>4, Near5
  <2> QED
    BY <2>1, <2>5 DEF m
<1>8. CASE q = 6
  <2>1. {6, 2, 16} \subseteq Products
    BY DEF Products
  <2>2. RateIs(fb, 6, m)
    BY <1>3, <1>8
  <2>3. FbAt(w, 6) \in Int /\ RateAt(w, 6) \in Int /\ Found(w, 6, FbAt(w, 6), RateAt(w, 6))
    BY <1>1, <2>1
  <2>4. FbAt(w, 2) \in Int /\ RateAt(w, 2) \in Int /\ Found(w, 2, FbAt(w, 2), RateAt(w, 2))
    BY <1>1, <2>1
  <2>5. FbAt(w, 16) \in Int /\ RateAt(w, 16) \in Int /\ Found(w, 16, FbAt(w, 16), RateAt(w, 16))
    BY <1>1, <2>1
  <2>6. \/ AsNear(w, FbAt(w, 6), RateAt(w, 6), m)
        \/ AsNear(w, FbAt(w, 2), RateAt(w, 2), m)
        \/ AsNear(w, FbAt(w, 16), RateAt(w, 16), m)
    BY <1>2, <1>3, <2>2, <2>3, <2>4, <2>5, Near6
  <2> QED
    BY <2>1, <2>6 DEF m
<1>9. CASE q = 7
  <2>1. {7, 5, 16} \subseteq Products
    BY DEF Products
  <2>2. RateIs(fb, 7, m)
    BY <1>3, <1>9
  <2>3. FbAt(w, 7) \in Int /\ RateAt(w, 7) \in Int /\ Found(w, 7, FbAt(w, 7), RateAt(w, 7))
    BY <1>1, <2>1
  <2>4. FbAt(w, 5) \in Int /\ RateAt(w, 5) \in Int /\ Found(w, 5, FbAt(w, 5), RateAt(w, 5))
    BY <1>1, <2>1
  <2>5. FbAt(w, 16) \in Int /\ RateAt(w, 16) \in Int /\ Found(w, 16, FbAt(w, 16), RateAt(w, 16))
    BY <1>1, <2>1
  <2>6. \/ AsNear(w, FbAt(w, 7), RateAt(w, 7), m)
        \/ AsNear(w, FbAt(w, 5), RateAt(w, 5), m)
        \/ AsNear(w, FbAt(w, 16), RateAt(w, 16), m)
    BY <1>2, <1>3, <2>2, <2>3, <2>4, <2>5, Near7
  <2> QED
    BY <2>1, <2>6 DEF m
<1>10. CASE q = 8
  <2>1. {8, 3, 16} \subseteq Products
    BY DEF Products
  <2>2. RateIs(fb, 8, m)
    BY <1>3, <1>10
  <2>3. FbAt(w, 8) \in Int /\ RateAt(w, 8) \in Int /\ Found(w, 8, FbAt(w, 8), RateAt(w, 8))
    BY <1>1, <2>1
  <2>4. FbAt(w, 3) \in Int /\ RateAt(w, 3) \in Int /\ Found(w, 3, FbAt(w, 3), RateAt(w, 3))
    BY <1>1, <2>1
  <2>5. FbAt(w, 16) \in Int /\ RateAt(w, 16) \in Int /\ Found(w, 16, FbAt(w, 16), RateAt(w, 16))
    BY <1>1, <2>1
  <2>6. \/ AsNear(w, FbAt(w, 8), RateAt(w, 8), m)
        \/ AsNear(w, FbAt(w, 3), RateAt(w, 3), m)
        \/ AsNear(w, FbAt(w, 16), RateAt(w, 16), m)
    BY <1>2, <1>3, <2>2, <2>3, <2>4, <2>5, Near8
  <2> QED
    BY <2>1, <2>6 DEF m
<1>11. CASE q = 9
  <2>1. {9, 4, 16, 7} \subseteq Products
    BY DEF Products
  <2>2. RateIs(fb, 9, m)
    BY <1>3, <1>11
  <2>3. FbAt(w, 9) \in Int /\ RateAt(w, 9) \in Int /\ Found(w, 9, FbAt(w, 9), RateAt(w, 9))
    BY <1>1, <2>1
  <2>4. FbAt(w, 4) \in Int /\ RateAt(w, 4) \in Int /\ Found(w, 4, FbAt(w, 4), RateAt(w, 4))
    BY <1>1, <2>1
  <2>5. FbAt(w, 16) \in Int /\ RateAt(w, 16) \in Int /\ Found(w, 16, FbAt(w, 16), RateAt(w, 16))
    BY <1>1, <2>1
  <2>6. FbAt(w, 7) \in Int /\ RateAt(w, 7) \in Int /\ Found(w, 7, FbAt(w, 7), RateAt(w, 7))
    BY <1>1, <2>1
  <2>7. \/ AsNear(w, FbAt(w, 9), RateAt(w, 9), m)
        \/ AsNear(w, FbAt(w, 4), RateAt(w, 4), m)
        \/ AsNear(w, FbAt(w, 16), RateAt(w, 16), m)
        \/ AsNear(w, FbAt(w, 7), RateAt(w, 7), m)
    BY <1>2, <1>3, <2>2, <2>3, <2>4, <2>5, <2>6, Near9
  <2> QED
    BY <2>1, <2>7 DEF m
<1>12. CASE q = 10
  <2>1. {10, 4, 16} \subseteq Products
    BY DEF Products
  <2>2. RateIs(fb, 10, m)
    BY <1>3, <1>12
  <2>3. FbAt(w, 10) \in Int /\ RateAt(w, 10) \in Int /\ Found(w, 10, FbAt(w, 10), RateAt(w, 10))
    BY <1>1, <2>1
  <2>4. FbAt(w, 4) \in Int /\ RateAt(w, 4) \in Int /\ Found(w, 4, FbAt(w, 4), RateAt(w, 4))
    BY <1>1, <2>1
  <2>5. FbAt(w, 16) \in Int /\ RateAt(w, 16) \in Int /\ Found(w, 16, FbAt(w, 16), RateAt(w, 16))
    BY <1>1, <2>1
  <2>6. \/ AsNear(w, FbAt(w, 10), RateAt(w, 10), m)
        \/ AsNear(w, FbAt(w, 4), RateAt(w, 4), m)
        \/ AsNear(w, FbAt(w, 16), RateAt(w, 16), m)
    BY <1>2, <1>3, <2>2, <2>3, <2>4, <2>5, Near10
  <2> QED
    BY <2>1, <2>6 DEF m
<1>13. CASE q = 12
  <2>1. {12, 4, 16} \subseteq Products
    BY DEF Products
  <2>2. RateIs(fb, 12, m)
    BY <1>3, <1>13
  <2>3. FbAt(w, 12) \in Int /\ RateAt(w, 12) \in Int /\ Found(w, 12, FbAt(w, 12), RateAt(w, 12))
    BY <1>1, <2>1
  <2>4. FbAt(w, 4) \in Int /\ RateAt(w, 4) \in Int /\ Found(w, 4, FbAt(w, 4), RateAt(w, 4))
    BY <1>1, <2>1
  <2>5. FbAt(w, 16) \in Int /\ RateAt(w, 16) \in Int /\ Found(w, 16, FbAt(w, 16), RateAt(w, 16))
    BY <1>1, <2>1
  <2>6. \/ AsNear(w, FbAt(w, 12), RateAt(w, 12), m)
        \/ AsNear(w, FbAt(w, 4), RateAt(w, 4), m)
        \/ AsNear(w, FbAt(w, 16), RateAt(w, 16), m)
    BY <1>2, <1>3, <2>2, <2>3, <2>4, <2>5, Near12
  <2> QED
    BY <2>1, <2>6 DEF m
<1>14. CASE q = 14
  <2>1. {14, 5, 16, 7} \subseteq Products
    BY DEF Products
  <2>2. RateIs(fb, 14, m)
    BY <1>3, <1>14
  <2>3. FbAt(w, 14) \in Int /\ RateAt(w, 14) \in Int /\ Found(w, 14, FbAt(w, 14), RateAt(w, 14))
    BY <1>1, <2>1
  <2>4. FbAt(w, 5) \in Int /\ RateAt(w, 5) \in Int /\ Found(w, 5, FbAt(w, 5), RateAt(w, 5))
    BY <1>1, <2>1
  <2>5. FbAt(w, 16) \in Int /\ RateAt(w, 16) \in Int /\ Found(w, 16, FbAt(w, 16), RateAt(w, 16))
    BY <1>1, <2>1
  <2>6. FbAt(w, 7) \in Int /\ RateAt(w, 7) \in Int /\ Found(w, 7, FbAt(w, 7), RateAt(w, 7))
    BY <1>1, <2>1
  <2>7. \/ AsNear(w, FbAt(w, 14), RateAt(w, 14), m)
        \/ AsNear(w, FbAt(w, 5), RateAt(w, 5), m)
        \/ AsNear(w, FbAt(w, 16), RateAt(w, 16), m)
        \/ AsNear(w, FbAt(w, 7), RateAt(w, 7), m)
    BY <1>2, <1>3, <2>2, <2>3, <2>4, <2>5, <2>6, Near14
  <2> QED
    BY <2>1, <2>7 DEF m
<1>15. CASE q = 15
  <2>1. {15, 5, 16} \subseteq Products
    BY DEF Products
  <2>2. RateIs(fb, 15, m)
    BY <1>3, <1>15
  <2>3. FbAt(w, 15) \in Int /\ RateAt(w, 15) \in Int /\ Found(w, 15, FbAt(w, 15), RateAt(w, 15))
    BY <1>1, <2>1
  <2>4. FbAt(w, 5) \in Int /\ RateAt(w, 5) \in Int /\ Found(w, 5, FbAt(w, 5), RateAt(w, 5))
    BY <1>1, <2>1
  <2>5. FbAt(w, 16) \in Int /\ RateAt(w, 16) \in Int /\ Found(w, 16, FbAt(w, 16), RateAt(w, 16))
    BY <1>1, <2>1
  <2>6. \/ AsNear(w, FbAt(w, 15), RateAt(w, 15), m)
        \/ AsNear(w, FbAt(w, 5), RateAt(w, 5), m)
        \/ AsNear(w, FbAt(w, 16), RateAt(w, 16), m)
    BY <1>2, <1>3, <2>2, <2>3, <2>4, <2>5, Near15
  <2> QED
    BY <2>1, <2>6 DEF m
<1>16. CASE q = 16
  <2>1. {16, 5, 6} \subseteq Products
    BY DEF Products
  <2>2. RateIs(fb, 16, m)
    BY <1>3, <1>16
  <2>3. FbAt(w, 16) \in Int /\ RateAt(w, 16) \in Int /\ Found(w, 16, FbAt(w, 16), RateAt(w, 16))
    BY <1>1, <2>1
  <2>4. FbAt(w, 5) \in Int /\ RateAt(w, 5) \in Int /\ Found(w, 5, FbAt(w, 5), RateAt(w, 5))
    BY <1>1, <2>1
  <2>5. FbAt(w, 6) \in Int /\ RateAt(w, 6) \in Int /\ Found(w, 6, FbAt(w, 6), RateAt(w, 6))
    BY <1>1, <2>1
  <2>6. \/ AsNear(w, FbAt(w, 16), RateAt(w, 16), m)
        \/ AsNear(w, FbAt(w, 5), RateAt(w, 5), m)
        \/ AsNear(w, FbAt(w, 6), RateAt(w, 6), m)
    BY <1>2, <1>3, <2>2, <2>3, <2>4, <2>5, Near16
  <2> QED
    BY <2>1, <2>6 DEF m
<1>17. CASE q = 18
  <2>1. {18, 5, 16} \subseteq Products
    BY DEF Products
  <2>2. RateIs(fb, 18, m)
    BY <1>3, <1>17
  <2>3. FbAt(w, 18) \in Int /\ RateAt(w, 18) \in Int /\ Found(w, 18, FbAt(w, 18), RateAt(w, 18))
    BY <1>1, <2>1
  <2>4. FbAt(w, 5) \in Int /\ RateAt(w, 5) \in Int /\ Found(w, 5, FbAt(w, 5), RateAt(w, 5))
    BY <1>1, <2>1
  <2>5. FbAt(w, 16) \in Int /\ RateAt(w, 16) \in Int /\ Found(w, 16, FbAt(w, 16), RateAt(w, 16))
    BY <1>1, <2>1
  <2>6. \/ AsNear(w, FbAt(w, 18), RateAt(w, 18), m)
        \/ AsNear(w, FbAt(w, 5), RateAt(w, 5), m)
        \/ AsNear(w, FbAt(w, 16), RateAt(w, 16), m)
    BY <1>2, <1>3, <2>2, <2>3, <2>4, <2>5, Near18
  <2> QED
    BY <2>1, <2>6 DEF m
<1>18. CASE q = 20
  <2>1. {20, 5, 7} \subseteq Products
    BY DEF Products
  <2>2. RateIs(fb, 20, m)
    BY <1>3, <1>18
  <2>3. FbAt(w, 20) \in Int /\ RateAt(w, 20) \in Int /\ Found(w, 20, FbAt(w, 20), RateAt(w, 20))
    BY <1>1, <2>1
  <2>4. FbAt(w, 5) \in Int /\ RateAt(w, 5) \in Int /\ Found(w, 5, FbAt(w, 5), RateAt(w, 5))
    BY <1>1, <2>1
  <2>5. FbAt(w, 7) \in Int /\ RateAt(w, 7) \in Int /\ Found(w, 7, FbAt(w, 7), RateAt(w, 7))
    BY <1>1, <2>1
  <2>6. \/ AsNear(w, FbAt(w, 20), RateAt(w, 20), m)
        \/ AsNear(w, FbAt(w, 5), RateAt(w, 5), m)
        \/ AsNear(w, FbAt(w, 7), RateAt(w, 7), m)
    BY <1>2, <1>3, <2>2, <2>3, <2>4, <2>5, Near20
  <2> QED
    BY <2>1, <2>6 DEF m
<1>19. CASE q = 21
  <2>1. {21, 5, 16} \subseteq Products
    BY DEF Products
  <2>2. RateIs(fb, 21, m)
    BY <1>3, <1>19
  <2>3. FbAt(w, 21) \in Int /\ RateAt(w, 21) \in Int /\ Found(w, 21, FbAt(w, 21), RateAt(w, 21))
    BY <1>1, <2>1
  <2>4. FbAt(w, 5) \in Int /\ RateAt(w, 5) \in Int /\ Found(w, 5, FbAt(w, 5), RateAt(w, 5))
    BY <1>1, <2>1
  <2>5. FbAt(w, 16) \in Int /\ RateAt(w, 16) \in Int /\ Found(w, 16, FbAt(w, 16), RateAt(w, 16))
    BY <1>1, <2>1
  <2>6. \/ AsNear(w, FbAt(w, 21), RateAt(w, 21), m)
        \/ AsNear(w, FbAt(w, 5), RateAt(w, 5), m)
        \/ AsNear(w, FbAt(w, 16), RateAt(w, 16), m)
    BY <1>2, <1>3, <2>2, <2>3, <2>4, <2>5, Near21
  <2> QED
    BY <2>1, <2>6 DEF m
<1>20. CASE q = 24
  <2>1. {24, 5, 8} \subseteq Products
    BY DEF Products
  <2>2. RateIs(fb, 24, m)
    BY <1>3, <1>20
  <2>3. FbAt(w, 24) \in Int /\ RateAt(w, 24) \in Int /\ Found(w, 24, FbAt(w, 24), RateAt(w, 24))
    BY <1>1, <2>1
  <2>4. FbAt(w, 5) \in Int /\ RateAt(w, 5) \in Int /\ Found(w, 5, FbAt(w, 5), RateAt(w, 5))
    BY <1>1, <2>1
  <2>5. FbAt(w, 8) \in Int /\ RateAt(w, 8) \in Int /\ Found(w, 8, FbAt(w, 8), RateAt(w, 8))
    BY <1>1, <2>1
  <2>6. \/ AsNear(w, FbAt(w, 24), RateAt(w, 24), m)
        \/ AsNear(w, FbAt(w, 5), RateAt(w, 5), m)
        \/ AsNear(w, FbAt(w, 8), RateAt(w, 8), m)
    BY <1>2, <1>3, <2>2, <2>3, <2>4, <2>5, Near24
  <2> QED
    BY <2>1, <2>6 DEF m
<1>21. CASE q = 25
  <2>1. {25, 5, 8} \subseteq Products
    BY DEF Products
  <2>2. RateIs(fb, 25, m)
    BY <1>3, <1>21
  <2>3. FbAt(w, 25) \in Int /\ RateAt(w, 25) \in Int /\ Found(w, 25, FbAt(w, 25), RateAt(w, 25))
    BY <1>1, <2>1
  <2>4. FbAt(w, 5) \in Int /\ RateAt(w, 5) \in Int /\ Found(w, 5, FbAt(w, 5), RateAt(w, 5))
    BY <1>1, <2>1
  <2>5. FbAt(w, 8) \in Int /\ RateAt(w, 8) \in Int /\ Found(w, 8, FbAt(w, 8), RateAt(w, 8))
    BY <1>1, <2>1
  <2>6. \/ AsNear(w, FbAt(w, 25), RateAt(w, 25), m)
        \/ AsNear(w, FbAt(w, 5), RateAt(w, 5), m)
        \/ AsNear(w, FbAt(w, 8), RateAt(w, 8), m)
    BY <1>2, <1>3, <2>2, <2>3, <2>4, <2>5, Near25
  <2> QED
    BY <2>1, <2>6 DEF m
<1>22. CASE q = 28
  <2>1. {28, 5, 12} \subseteq Products
    BY DEF Products
  <2>2. RateIs(fb, 28, m)
    BY <1>3, <1>22
  <2>3. FbAt(w, 28) \in Int /\ RateAt(w, 28) \in Int /\ Found(w, 28, FbAt(w, 28), RateAt(w, 28))
    BY <1>1, <2>1
  <2>4. FbAt(w, 5) \in Int /\ RateAt(w, 5) \in Int /\ Found(w, 5, FbAt(w, 5), RateAt(w, 5))
    BY <1>1, <2>1
  <2>5. FbAt(w, 12) \in Int /\ RateAt(w, 12) \in Int /\ Found(w, 12, FbAt(w, 12), RateAt(w, 12))
    BY <1>1, <2>1
  <2>6. \/ AsNear(w, FbAt(w, 28), RateAt(w, 28), m)
        \/ AsNear(w, FbAt(w, 5), RateAt(w, 5), m)
        \/ AsNear(w, FbAt(w, 12), RateAt(w, 12), m)
    BY <1>2, <1>3, <2>2, <2>3, <2>4, <2>5, Near28
  <2> QED
    BY <2>1, <2>6 DEF m
<1>23. CASE q = 30
  <2>1. {30, 5, 10} \subseteq Products
    BY DEF Products
  <2>2. RateIs(fb, 30, m)
    BY <1>3, <1>23
  <2>3. FbAt(w, 30) \in Int /\ RateAt(w, 30) \in Int /\ Found(w, 30, FbAt(w, 30), RateAt(w, 30))
    BY <1>1, <2>1
  <2>4. FbAt(w, 5) \in Int /\ RateAt(w, 5) \in Int /\ Found(w, 5, FbAt(w, 5), RateAt(w, 5))
    BY <1>1, <2>1
  <2>5. FbAt(w, 10) \in Int /\ RateAt(w, 10) \in Int /\ Found(w, 10, FbAt(w, 10), RateAt(w, 10))
    BY <1>1, <2>1
  <2>6. \/ AsNear(w, FbAt(w, 30), RateAt(w, 30), m)
        \/ AsNear(w, FbAt(w, 5), RateAt(w, 5), m)
        \/ AsNear(w, FbAt(w, 10), RateAt(w, 10), m)
    BY <1>2, <1>3, <2>2, <2>3, <2>4, <2>5, Near30
  <2> QED
    BY <2>1, <2>6 DEF m
<1>24. CASE q = 35
  <2>1. {35, 5, 14, 20} \subseteq Products
    BY DEF Products
  <2>2. RateIs(fb, 35, m)
    BY <1>3, <1>24
  <2>3. FbAt(w, 35) \in Int /\ RateAt(w, 35) \in Int /\ Found(w, 35, FbAt(w, 35), RateAt(w, 35))
    BY <1>1, <2>1
  <2>4. FbAt(w, 5) \in Int /\ RateAt(w, 5) \in Int /\ Found(w, 5, FbAt(w, 5), RateAt(w, 5))
    BY <1>1, <2>1
  <2>5. FbAt(w, 14) \in Int /\ RateAt(w, 14) \in Int /\ Found(w, 14, FbAt(w, 14), RateAt(w, 14))
    BY <1>1, <2>1
  <2>6. FbAt(w, 20) \in Int /\ RateAt(w, 20) \in Int /\ Found(w, 20, FbAt(w, 20), RateAt(w, 20))
    BY <1>1, <2>1
  <2>7. \/ AsNear(w, FbAt(w, 35), RateAt(w, 35), m)
        \/ AsNear(w, FbAt(w, 5), RateAt(w, 5), m)
        \/ AsNear(w, FbAt(w, 14), RateAt(w, 14), m)
        \/ AsNear(w, FbAt(w, 20), RateAt(w, 20), m)
    BY <1>2, <1>3, <2>2, <2>3, <2>4, <2>5, <2>6, Near35
  <2> QED
    BY <2>1, <2>7 DEF m
<1>25. CASE q = 36
  <2>1. {36, 5, 12} \subseteq Products
    BY DEF Products
  <2>2. RateIs(fb, 36, m)
    BY <1>3, <1>25
  <2>3. FbAt(w, 36) \in Int /\ RateAt(w, 36) \in Int /\ Found(w, 36, FbAt(w, 36), RateAt(w, 36))
    BY <1>1, <2>1
  <2>4. FbAt(w, 5) \in Int /\ RateAt(w, 5) \in Int /\ Found(w, 5, FbAt(w, 5), RateAt(w, 5))
    BY <1>1, <2>1
  <2>5. FbAt(w, 12) \in Int /\ RateAt(w, 12) \in Int /\ Found(w, 12, FbAt(w, 12), RateAt(w, 12))
    BY <1>1, <2>1
  <2>6. \/ AsNear(w, FbAt(w, 36), RateAt(w, 36), m)
        \/ AsNear(w, FbAt(w, 5), RateAt(w, 5), m)
        \/ AsNear(w, FbAt(w, 12), RateAt(w, 12), m)
    BY <1>2, <1>3, <2>2, <2>3, <2>4, <2>5, Near36
  <2> QED
    BY <2>1, <2>6 DEF m
<1>26. CASE q = 42
  <2>1. {42, 5, 14, 16} \subseteq Products
    BY DEF Products
  <2>2. RateIs(fb, 42, m)
    BY <1>3, <1>26
  <2>3. FbAt(w, 42) \in Int /\ RateAt(w, 42) \in Int /\ Found(w, 42, FbAt(w, 42), RateAt(w, 42))
    BY <1>1, <2>1
  <2>4. FbAt(w, 5) \in Int /\ RateAt(w, 5) \in Int /\ Found(w, 5, FbAt(w, 5), RateAt(w, 5))
    BY <1>1, <2>1
  <2>5. FbAt(w, 14) \in Int /\ RateAt(w, 14) \in Int /\ Found(w, 14, FbAt(w, 14), RateAt(w, 14))
    BY <1>1, <2>1
  <2>6. FbAt(w, 16) \in Int /\ RateAt(w, 16) \in Int /\ Found(w, 16, FbAt(w, 16), RateAt(w, 16))
    BY <1>1, <2>1
  <2>7. \/ AsNear(w, FbAt(w, 42), RateAt(w, 42), m)
        \/ AsNear(w, FbAt(w, 5), RateAt(w, 5), m)
        \/ AsNear(w, FbAt(w, 14), RateAt(w, 14), m)
        \/ AsNear(w, FbAt(w, 16), RateAt(w, 16), m)
    BY <1>2, <1>3, <2>2, <2>3, <2>4, <2>5, <2>6, Near42
  <2> QED
    BY <2>1, <2>7 DEF m
<1>27. CASE q = 49
  <2>1. {49, 5, 16, 20} \subseteq Products
    BY DEF Products
  <2>2. RateIs(fb, 49, m)
    BY <1>3, <1>27
  <2>3. FbAt(w, 49) \in Int /\ RateAt(w, 49) \in Int /\ Found(w, 49, FbAt(w, 49), RateAt(w, 49))
    BY <1>1, <2>1
  <2>4. FbAt(w, 5) \in Int /\ RateAt(w, 5) \in Int /\ Found(w, 5, FbAt(w, 5), RateAt(w, 5))
    BY <1>1, <2>1
  <2>5. FbAt(w, 16) \in Int /\ RateAt(w, 16) \in Int /\ Found(w, 16, FbAt(w, 16), RateAt(w, 16))
    BY <1>1, <2>1
  <2>6. FbAt(w, 20) \in Int /\ RateAt(w, 20) \in Int /\ Found(w, 20, FbAt(w, 20), RateAt(w, 20))
    BY <1>1, <2>1
  <2>7. \/ AsNear(w, FbAt(w, 49), RateAt(w, 49), m)
        \/ AsNear(w, FbAt(w, 5), RateAt(w, 5), m)
        \/ AsNear(w, FbAt(w, 16), RateAt(w, 16), m)
        \/ AsNear(w, FbAt(w, 20), RateAt(w, 20), m)
    BY <1>2, <1>3, <2>2, <2>3, <2>4, <2>5, <2>6, Near49
  <2> QED
    BY <2>1, <2>7 DEF m
<1>28. CASE q = 1
  BY <1>2, <1>3, <1>28 DEF RateIs, Allowed
<1> QED
  BY <1>4, <1>5, <1>6, <1>7, <1>8, <1>9, <1>10, <1>11, <1>12, <1>13, <1>14, <1>15, <1>16, <1>17, <1>18, <1>19, <1>20, <1>21, <1>22, <1>23, <1>24, <1>25, <1>26, <1>27, <1>28 DEF Products

(* The pair whose product it is.                                           *)
LEMMA PairFor ==
  ASSUME NEW r \in Products PROVE \E p \in Pairs : p[1] * p[2] = r
<1>1. CASE r = 1
  <2>1. <<1, 1>> \in Pairs /\ <<1, 1>>[1] * <<1, 1>>[2] = r
    BY <1>1 DEF Pairs
  <2> QED
    BY <2>1
<1>2. CASE r = 2
  <2>1. <<2, 1>> \in Pairs /\ <<2, 1>>[1] * <<2, 1>>[2] = r
    BY <1>2 DEF Pairs
  <2> QED
    BY <2>1
<1>3. CASE r = 3
  <2>1. <<3, 1>> \in Pairs /\ <<3, 1>>[1] * <<3, 1>>[2] = r
    BY <1>3 DEF Pairs
  <2> QED
    BY <2>1
<1>4. CASE r = 4
  <2>1. <<2, 2>> \in Pairs /\ <<2, 2>>[1] * <<2, 2>>[2] = r
    BY <1>4 DEF Pairs
  <2> QED
    BY <2>1
<1>5. CASE r = 5
  <2>1. <<5, 1>> \in Pairs /\ <<5, 1>>[1] * <<5, 1>>[2] = r
    BY <1>5 DEF Pairs
  <2> QED
    BY <2>1
<1>6. CASE r = 6
  <2>1. <<3, 2>> \in Pairs /\ <<3, 2>>[1] * <<3, 2>>[2] = r
    BY <1>6 DEF Pairs
  <2> QED
    BY <2>1
<1>7. CASE r = 7
  <2>1. <<7, 1>> \in Pairs /\ <<7, 1>>[1] * <<7, 1>>[2] = r
    BY <1>7 DEF Pairs
  <2> QED
    BY <2>1
<1>8. CASE r = 8
  <2>1. <<4, 2>> \in Pairs /\ <<4, 2>>[1] * <<4, 2>>[2] = r
    BY <1>8 DEF Pairs
  <2> QED
    BY <2>1
<1>9. CASE r = 9
  <2>1. <<3, 3>> \in Pairs /\ <<3, 3>>[1] * <<3, 3>>[2] = r
    BY <1>9 DEF Pairs
  <2> QED
    BY <2>1
<1>10. CASE r = 10
  <2>1. <<5, 2>> \in Pairs /\ <<5, 2>>[1] * <<5, 2>>[2] = r
    BY <1>10 DEF Pairs
  <2> QED
    BY <2>1
<1>11. CASE r = 12
  <2>1. <<4, 3>> \in Pairs /\ <<4, 3>>[1] * <<4, 3>>[2] = r
    BY <1>11 DEF Pairs
  <2> QED
    BY <2>1
<1>12. CASE r = 14
  <2>1. <<7, 2>> \in Pairs /\ <<7, 2>>[1] * <<7, 2>>[2] = r
    BY <1>12 DEF Pairs
  <2> QED
    BY <2>1
<1>13. CASE r = 15
  <2>1. <<5, 3>> \in Pairs /\ <<5, 3>>[1] * <<5, 3>>[2] = r
    BY <1>13 DEF Pairs
  <2> QED
    BY <2>1
<1>14. CASE r = 16
  <2>1. <<4, 4>> \in Pairs /\ <<4, 4>>[1] * <<4, 4>>[2] = r
    BY <1>14 DEF Pairs
  <2> QED
    BY <2>1
<1>15. CASE r = 18
  <2>1. <<6, 3>> \in Pairs /\ <<6, 3>>[1] * <<6, 3>>[2] = r
    BY <1>15 DEF Pairs
  <2> QED
    BY <2>1
<1>16. CASE r = 20
  <2>1. <<5, 4>> \in Pairs /\ <<5, 4>>[1] * <<5, 4>>[2] = r
    BY <1>16 DEF Pairs
  <2> QED
    BY <2>1
<1>17. CASE r = 21
  <2>1. <<7, 3>> \in Pairs /\ <<7, 3>>[1] * <<7, 3>>[2] = r
    BY <1>17 DEF Pairs
  <2> QED
    BY <2>1
<1>18. CASE r = 24
  <2>1. <<6, 4>> \in Pairs /\ <<6, 4>>[1] * <<6, 4>>[2] = r
    BY <1>18 DEF Pairs
  <2> QED
    BY <2>1
<1>19. CASE r = 25
  <2>1. <<5, 5>> \in Pairs /\ <<5, 5>>[1] * <<5, 5>>[2] = r
    BY <1>19 DEF Pairs
  <2> QED
    BY <2>1
<1>20. CASE r = 28
  <2>1. <<7, 4>> \in Pairs /\ <<7, 4>>[1] * <<7, 4>>[2] = r
    BY <1>20 DEF Pairs
  <2> QED
    BY <2>1
<1>21. CASE r = 30
  <2>1. <<6, 5>> \in Pairs /\ <<6, 5>>[1] * <<6, 5>>[2] = r
    BY <1>21 DEF Pairs
  <2> QED
    BY <2>1
<1>22. CASE r = 35
  <2>1. <<7, 5>> \in Pairs /\ <<7, 5>>[1] * <<7, 5>>[2] = r
    BY <1>22 DEF Pairs
  <2> QED
    BY <2>1
<1>23. CASE r = 36
  <2>1. <<6, 6>> \in Pairs /\ <<6, 6>>[1] * <<6, 6>>[2] = r
    BY <1>23 DEF Pairs
  <2> QED
    BY <2>1
<1>24. CASE r = 42
  <2>1. <<7, 6>> \in Pairs /\ <<7, 6>>[1] * <<7, 6>>[2] = r
    BY <1>24 DEF Pairs
  <2> QED
    BY <2>1
<1>25. CASE r = 49
  <2>1. <<7, 7>> \in Pairs /\ <<7, 7>>[1] * <<7, 7>>[2] = r
    BY <1>25 DEF Pairs
  <2> QED
    BY <2>1
<1> QED
  BY <1>1, <1>2, <1>3, <1>4, <1>5, <1>6, <1>7, <1>8, <1>9, <1>10, <1>11, <1>12, <1>13, <1>14, <1>15, <1>16, <1>17, <1>18, <1>19, <1>20, <1>21, <1>22, <1>23, <1>24, <1>25 DEF Products

(* The pair x gives the wish w a rate as near to it as the rate k.         *)
Prod(p) == p[1] * p[2]
NearAs(w, x, k) == Fits(w, x) /\ Far(RateWith(w, x), w) <= Far(k, w)

LEMMA PairIsProduct ==
  ASSUME NEW w \in Nat, NEW p \in Pairs
  PROVE  FbFor(w, p) = FbAt(w, Prod(p)) /\ RateWith(w, p) = RateAt(w, Prod(p))
<1>1. p[1] \in Nat /\ p[2] \in Nat
  BY DEF Pairs
<1>2. \A a, b, c \in Nat : (a * b) * c = a * (b * c)
  BY SMT
<1>3. (w * p[1]) * p[2] = w * (p[1] * p[2])
  BY <1>1, <1>2
<1> QED
  BY <1>3 DEF FbFor, FbAt, RateWith, RateAt, Prod

LEMMA AllowedFits ==
  ASSUME NEW fb \in Int, NEW k \in Int, Allowed(fb, k)
  PROVE  fb \in FbDivs /\ InRange(k)
  BY DEF Allowed, FbDivs, InRange

LEMMA FarNat ==
  ASSUME NEW w \in Wish, NEW k \in Nat PROVE Far(k, w) \in Nat /\ Far(k, k) <= 1
  BY DEF Far, Wish

LEMMA RateNat ==
  ASSUME NEW w \in Wish, NEW p \in Pairs PROVE RateWith(w, p) \in Nat
<1>1. w \in Nat
  BY DEF Wish
<1>2. Prod(p) \in Products
  BY ProductOf DEF Prod
<1> QED
  BY <1>1, <1>2, PairIsProduct, FoundAt

LEMMA SettingNat ==
  ASSUME NEW fb \in FbDivs, NEW q \in Products PROVE rate_of(fb, q) \in Nat
<1> DEFINE b == fb * 1000
<1>1. b \in Nat
  BY DEF FbDivs
<1> HIDE DEF b
<1>2. b \div q \in Nat
  BY <1>1, ProductNat, Quotient
<1> QED
  BY <1>2 DEF rate_of, b

(* The search looks at a setting as near as any.                           *)
LEMMA SomePairNear ==
  ASSUME NEW w \in Wish, NEW p \in Pairs, NEW fb \in FbDivs, InRange(rate_of(fb, Prod(p)))
  PROVE  \E x \in Pairs : NearAs(w, x, rate_of(fb, Prod(p)))
<1> DEFINE q == Prod(p)
           m == rate_of(fb, q)
<1>1. q \in Products /\ InRange(rate_of(fb, q))
  BY ProductOf DEF Prod
<1> HIDE DEF q
<1>2. PICK r \in Products : AsNear(w, FbAt(w, r), RateAt(w, r), m)
  BY <1>1, SomeNear
<1>3. PICK x \in Pairs : Prod(x) = r
  BY PairFor DEF Prod
<1>4. FbFor(w, x) = FbAt(w, r) /\ RateWith(w, x) = RateAt(w, r)
  <2>1. w \in Nat
    BY DEF Wish
  <2> QED
    BY <1>3, <2>1, PairIsProduct
<1>5. FbAt(w, r) \in Int /\ RateAt(w, r) \in Int
  BY FoundAt
<1> HIDE DEF m
<1>6. FbAt(w, r) \in FbDivs /\ InRange(RateAt(w, r)) /\ Far(RateAt(w, r), w) <= Far(m, w)
  BY <1>2, <1>5, AllowedFits DEF AsNear
<1>7. Fits(w, x) /\ Far(RateWith(w, x), w) <= Far(m, w)
  BY <1>4, <1>6 DEF Fits
<1> QED
  BY <1>7 DEF NearAs, m, q

(* Every wish in range has a setting.                                      *)
LEMMA SomePairFits ==
  ASSUME NEW w \in Wish PROVE \E x \in Pairs : Fits(w, x)
<1> DEFINE p == <<4, 4>>
<1>1. p \in Pairs /\ Prod(p) = 16
  BY DEF Pairs, Prod
<1>2. 100 \in FbDivs
  BY DEF FbDivs
<1>3. InRange(rate_of(100, Prod(p)))
  <2>1. rate_of(100, 16) = 6250
    BY DEF rate_of
  <2> QED
    BY <1>1, <2>1 DEF InRange
<1> HIDE DEF p
<1>4. PICK x \in Pairs : NearAs(w, x, rate_of(100, Prod(p)))
  BY <1>1, <1>2, <1>3, SomePairNear
<1> QED
  BY <1>4 DEF NearAs

(* The search finds the nearest of those it looks at.                      *)
LEMMA BestOfPairs ==
  ASSUME NEW w \in Wish
  PROVE  /\ BestPair(w) \in Pairs /\ Fits(w, BestPair(w))
         /\ \A x \in Pairs : Fits(w, x) => Far(RateWith(w, BestPair(w)), w) <= Far(RateWith(w, x), w)
<1> DEFINE d(x) == Far(RateWith(w, x), w)
           S == {x \in Pairs : Fits(w, x)}
           Nearest(best) ==
             /\ Fits(w, best)
             /\ \A p \in Pairs : Fits(w, p) =>
                  \/ d(best) < d(p)
                  \/ /\ d(best) = d(p)
                     /\ ~Before(p, best)
<1>1. \A x \in S : d(x) \in Nat
  BY FarNat, RateNat
<1>2. PICK x0 \in Pairs : Fits(w, x0)
  BY SomePairFits
<1> DEFINE Ds == {d(x) : x \in S}
<1>3. PICK m \in Ds : \A n \in Ds : m <= n
  <2>1. Ds \in SUBSET Nat /\ Ds # {}
    BY <1>1, <1>2
  <2> HIDE DEF Ds
  <2> QED
    BY <2>1, LeastNumber
<1> DEFINE T == {x \in S : d(x) = m}
           key(x) == x[1] * 8 + x[2]
           Ks == {key(x) : x \in T}
<1>4. PICK k \in Ks : \A n \in Ks : k <= n
  <2>1. \A x \in T : key(x) \in Nat
    BY DEF Pairs
  <2>2. Ks \in SUBSET Nat /\ Ks # {}
    BY <1>3, <2>1
  <2> HIDE DEF Ks
  <2> QED
    BY <2>2, LeastNumber
<1>5. PICK best \in T : key(best) = k
  BY <1>4
<1>6. best \in Pairs /\ Nearest(best)
  <2>1. best \in Pairs /\ Fits(w, best) /\ d(best) = m
    BY <1>5
  <2>2. ASSUME NEW p \in Pairs, Fits(w, p)
        PROVE  d(best) < d(p) \/ (d(best) = d(p) /\ ~Before(p, best))
    <3>1. m <= d(p) /\ d(p) \in Nat /\ m \in Nat
      BY <1>1, <1>3, <2>1, <2>2
    <3>2. CASE d(p) = m
      <4>1. key(best) <= key(p)
        BY <1>4, <1>5, <2>2, <3>2
      <4>2. ~Before(p, best)
        BY <2>1, <4>1 DEF Before, Pairs
      <4> QED
        BY <2>1, <3>2, <4>2
    <3> HIDE DEF d
    <3> QED
      BY <2>1, <3>1, <3>2
  <2> QED
    BY <2>1, <2>2
<1>7. BestPair(w) = CHOOSE b \in Pairs : Nearest(b)
  BY <1>2 DEF BestPair
<1>8. BestPair(w) \in Pairs /\ Nearest(BestPair(w))
  <2> HIDE DEF Nearest
  <2> QED
    BY <1>6, <1>7
<1>9. ASSUME NEW x \in Pairs, Fits(w, x) PROVE d(BestPair(w)) <= d(x)
  <2>1. d(x) \in Nat /\ d(BestPair(w)) \in Nat
    BY <1>1, <1>8, <1>9
  <2>2. d(BestPair(w)) < d(x) \/ d(BestPair(w)) = d(x)
    BY <1>8, <1>9
  <2> HIDE DEF d
  <2> QED
    BY <2>1, <2>2
<1> QED
  BY <1>8, <1>9

(* The ADC's clock as it is read back, without a divider, is eight times   *)
(* the rate.                                                               *)
LEMMA Eighth ==
  ASSUME NEW f \in Nat, NEW q \in Products
  PROVE  ((8000 * f) \div q) \div 8 = (f * 1000) \div q
<1> DEFINE a == f * 1000
           k == a \div q
           e == (8 * a) \div q
<1>1. q \in Nat /\ q > 0
  BY ProductNat
<1>2. a \in Nat /\ 8 * a \in Nat /\ 8000 * f = 8 * a
  OBVIOUS
<1> HIDE DEF a
<1>3. k \in Nat /\ q * k <= a /\ a < q * k + q
  BY <1>1, <1>2, Quotient
<1>4. e \in Nat /\ q * e <= 8 * a /\ 8 * a < q * e + q
  BY <1>1, <1>2, Quotient
<1> HIDE DEF k, e
<1>5. \A x, y \in Nat : q * x < q * y => x < y
  BY <1>1, SmallerFactor
<1>6. q * (8 * k) = 8 * (q * k) /\ q * (e + 1) = q * e + q /\ q * (8 * k + 8) = 8 * (q * k) + 8 * q
  BY <1>1, <1>3, <1>4, Spread
<1>7. q * k \in Nat /\ q * e \in Nat
  BY <1>1, <1>3, <1>4, TimesNat
<1>8. q * (8 * k) < q * (e + 1) /\ q * e < q * (8 * k + 8)
  BY <1>1, <1>2, <1>3, <1>4, <1>6, <1>7
<1>9. 8 * k < e + 1 /\ e < 8 * k + 8
  BY <1>3, <1>4, <1>5, <1>8
<1>10. e \div 8 = k
  BY <1>3, <1>4, <1>9
<1> QED
  BY <1>2, <1>10 DEF e, k, a

(* What the last "rate" told is what the search found for the wish, and    *)
(* the PLL still holds it: every other command takes the answer back.      *)
Holds(f, p, g, w) == f = FbFor(w, p) /\ p = BestPair(w) /\ g = <<w, RateWith(w, p)>>
RateHeld == got # <<>> => \E w \in Wish : Holds(fbdiv, postdiv, got, w)

LEMMA RateHeldStep == RateHeld /\ [ClockNext]_clockVars => RateHeld'
<1> SUFFICES ASSUME RateHeld, [ClockNext]_clockVars PROVE RateHeld'
  OBVIOUS
<1>1. CASE clock_adc_set_rate
  <2>1. PICK want \in Rates :
          LET best == BestPair(want)
              fb   == IF Fits(want, best) THEN FbFor(want, best) ELSE 200
          IN  \/ /\ InRange(want)
                 /\ fbdiv' = fb /\ postdiv' = best
                 /\ got' \in {<<want, rate_of(fb, best[1] * best[2])>>, <<>>}
              \/ UNCHANGED <<fbdiv, postdiv>> /\ got' = <<>>
    BY <1>1 DEF clock_adc_set_rate
  <2>2. CASE got' = <<>>
    BY <2>2 DEF RateHeld
  <2>3. CASE got' # <<>>
    <3>1. want \in Wish
      BY <2>1, <2>3, RatesAssumption DEF Wish
    <3>2. Fits(want, BestPair(want))
      BY <3>1, BestOfPairs
    <3>3. fbdiv' = FbFor(want, postdiv') /\ postdiv' = BestPair(want)
      BY <2>1, <2>3, <3>2
    <3>4. got' = <<want, RateWith(want, postdiv')>>
      BY <2>1, <2>3, <3>2 DEF RateWith
    <3> QED
      BY <3>1, <3>3, <3>4 DEF RateHeld, Holds
  <2> QED
    BY <2>2, <2>3
<1>2. CASE clock_adc_set_pll
  BY <1>2 DEF clock_adc_set_pll, RateHeld
<1>3. CASE clock_adc_set_div
  BY <1>3 DEF clock_adc_set_div, RateHeld
<1>4. CASE stream_on
  BY <1>4 DEF stream_on, RateHeld
<1>5. CASE stream_off
  BY <1>5 DEF stream_off, RateHeld
<1>6. CASE UNCHANGED clockVars
  BY <1>6 DEF clockVars, RateHeld
<1> QED
  BY <1>1, <1>2, <1>3, <1>4, <1>5, <1>6 DEF ClockNext

LEMMA HeldIsBest == RateHeld => BestRate
<1> SUFFICES ASSUME RateHeld, got # <<>>
             PROVE  /\ fbdiv \in FbDivs /\ InRange(got[2])
                    /\ clk6div = <<0, 0>> => Far(capture_nominal_ksps, got[2]) <= 1
                    /\ \A fb \in FbDivs, p \in Pairs :
                         InRange(rate_of(fb, p[1] * p[2]))
                           => Far(got[2], got[1]) <= Far(rate_of(fb, p[1] * p[2]), got[1])
  BY DEF BestRate
<1>1. PICK w \in Wish :
        fbdiv = FbFor(w, postdiv) /\ postdiv = BestPair(w) /\ got = <<w, RateWith(w, postdiv)>>
  BY DEF RateHeld, Holds
<1>2. /\ postdiv \in Pairs /\ Fits(w, postdiv)
      /\ \A x \in Pairs : Fits(w, x) => Far(RateWith(w, postdiv), w) <= Far(RateWith(w, x), w)
  BY <1>1, BestOfPairs
<1>3. got[1] = w /\ got[2] = RateWith(w, postdiv) /\ got[2] = rate_of(fbdiv, postdiv[1] * postdiv[2])
  BY <1>1 DEF RateWith
<1>4. fbdiv \in FbDivs /\ InRange(got[2])
  BY <1>1, <1>2, <1>3 DEF Fits
<1>5. ASSUME clk6div = <<0, 0>> PROVE Far(capture_nominal_ksps, got[2]) <= 1
  <2>1. clock_adc_div = 100
    BY <1>5 DEF clock_adc_div, Raw
  <2>2. postdiv[1] * postdiv[2] \in Products /\ fbdiv \in Nat
    BY <1>2, <1>4, ProductOf DEF FbDivs
  <2>3. pll1_out_khz \div 8 = got[2]
    BY <1>3, <2>2, Eighth DEF pll1_out_khz, FRC_KHZ, rate_of
  <2>4. pll1_out_khz \in Int
    BY <2>2, ProductNat DEF pll1_out_khz, FRC_KHZ
  <2>5. clock_adc_khz = pll1_out_khz
    <3>1. \A x \in Int : (x * 100) \div 100 = x
      OBVIOUS
    <3> QED
      BY <2>1, <2>4, <3>1 DEF clock_adc_khz
  <2>6. capture_nominal_ksps = got[2]
    BY <2>3, <2>5 DEF capture_nominal_ksps
  <2> QED
    BY <1>2, <1>3, <2>6, FarNat, RateNat
<1>6. ASSUME NEW fb \in FbDivs, NEW p \in Pairs, InRange(rate_of(fb, p[1] * p[2]))
      PROVE  Far(got[2], got[1]) <= Far(rate_of(fb, p[1] * p[2]), got[1])
  <2> DEFINE n == rate_of(fb, Prod(p))
  <2>1. PICK x \in Pairs : NearAs(w, x, n)
    BY <1>6, SomePairNear DEF Prod
  <2> HIDE DEF n
  <2>2. Far(RateWith(w, postdiv), w) <= Far(RateWith(w, x), w)
    BY <1>2, <2>1 DEF NearAs
  <2>3. n \in Nat
    BY ProductOf, SettingNat DEF n, Prod
  <2>4. Far(RateWith(w, postdiv), w) \in Nat /\ Far(RateWith(w, x), w) \in Nat /\ Far(n, w) \in Nat
    BY <1>2, <2>1, <2>3, FarNat, RateNat
  <2>5. Far(RateWith(w, postdiv), w) <= Far(n, w)
    BY <2>1, <2>2, <2>4 DEF NearAs
  <2> QED
    BY <1>3, <2>5 DEF n, Prod
<1> QED
  BY <1>4, <1>5, <1>6

(* clock_adc_set_rate(): whatever rates were asked for before and          *)
(* whatever else was set, the rate "rate" tells is the one the registers   *)
(* give, and no other setting the VCO and the ADC allow comes closer.      *)
THEOREM RateIsBest == ClockSpec => []BestRate
<1>1. ClockInit => RateHeld
  BY DEF ClockInit, RateHeld
<1>2. RateHeld /\ [ClockNext]_clockVars => RateHeld'
  BY RateHeldStep
<1>3. RateHeld => BestRate
  BY HeldIsBest
<1> QED
  BY <1>1, <1>2, <1>3, PTL DEF ClockSpec

=============================================================================
