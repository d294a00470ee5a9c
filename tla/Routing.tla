------------------------------ MODULE Routing ------------------------------
(***************************************************************************)
(* routing.c: the table of signal paths, the signal generator's claim held *)
(* beside it, and the resource limits both are charged against.  Routes    *)
(* are added, applied and cleared, and the claim taken and given back, in  *)
(* any order.                                                              *)
(***************************************************************************)
EXTENDS Integers, Sequences, FiniteSets, Functions

CONSTANTS
  Device,                        \* the package: "MPS512" or "MPS506"
  DmaChannels, SccpCount, DacOutputs, UrefCount, MaxRoutes,
  ChannelBytes, SampleBytes, RamBudget,
  Paths,                         \* the routes somebody may ask for
  Plays                          \* the <<dac, n>> the generator may ask for

RouteSrc  == {"EXT", "DAC_INT", "DAC_PIN", "RAM_TABLE"}
RouteSink == {"RAM", "CONSOLE", "STREAM"}
CORE_NONE == 0
Route == [src : RouteSrc, core : 0..5, pinsel : 0..15, dac : 0..8, sink : RouteSink,
          table_samples : Nat]
Play  == [dac : 1..8, n : Nat]

ASSUME RoutingLimits ==
  /\ {DmaChannels, SccpCount, DacOutputs, UrefCount, MaxRoutes} \subseteq Nat
  /\ {ChannelBytes, SampleBytes, RamBudget} \subseteq Nat
ASSUME RoutingInputs == Paths \subseteq Route /\ Plays \subseteq Play

VARIABLES
  routes,      \* route_table[0 .. route_count)
  claimed      \* {} or the one play (gen_dac, gen_n)

routingVars == <<routes, claimed>>

----------------------------------------------------------------------------
(* Which PINSEL a core reaches: package pins, and the internal channels.   *)
PinMask ==
  IF Device = "MPS506"
  THEN <<0..4, 0..4, {0, 1, 2, 5}, 0..5, 0..4>>
  ELSE <<0..4, 0..5, 0..5, 0..5, 0..4>>
IntMask == [c \in 1..5 |-> IF c = 5 THEN 5..8 ELSE 6..7]
route_pin_reachable(core, pinsel) ==
  core \in 1..5 /\ pinsel \in IntMask[core] \cup PinMask[core]

----------------------------------------------------------------------------
(* What the table and the claim use (the figures of "route list").         *)
IsAdc(r)      == r.src # "RAM_TABLE"
HasTable(r)   == r.table_samples > 0
Count(t, P(_)) == Cardinality({i \in DOMAIN t : P(t[i])})
\* MUTANT: only the last route's core counts as taken.
LastCoreInUse(t, core) == t # <<>> /\ t[Len(t)].core = core
core_in_use(t, core) == \E i \in DOMAIN t : t[i].core = core
count_adc_consuming(t) == Count(t, IsAdc)
\* MUTANT: the generator's table is not charged.
TablesOfRoutes(t, g)   == Count(t, HasTable)
count_table_dacs(t, g) == Count(t, HasTable) + Cardinality(g)
count_dac_pin(t, g)    == Count(t, LAMBDA r : r.src = "DAC_PIN") + Cardinality(g)
count_dac_int(t)       == Count(t, LAMBDA r : r.src = "DAC_INT")
Bytes(r)      == (IF IsAdc(r) THEN ChannelBytes ELSE 0) + r.table_samples * SampleBytes
ram_used_bytes(t, g) ==
  FoldFunction(LAMBDA b, sum : b + sum, 0, [i \in DOMAIN t |-> Bytes(t[i])])
  + SampleBytes * (IF g = {} THEN 0 ELSE (CHOOSE p \in g : TRUE).n)
uses_dac(r, dac) == r.src \in {"DAC_PIN", "DAC_INT"} /\ r.dac = dac

\* One trigger for every core that converts, a timer for every table.
SccpUsed(adc, tables) == (IF adc > 0 THEN 1 ELSE 0) + tables

routing_gen_check(t, g, p) ==
  /\ \A i \in DOMAIN t : ~uses_dac(t[i], p.dac)
  /\ SccpUsed(count_adc_consuming(t), count_table_dacs(t, g) + 1) <= SccpCount
  /\ count_adc_consuming(t) + count_table_dacs(t, g) + 1 <= DmaChannels
  /\ count_dac_pin(t, g) + 1 <= DacOutputs
  /\ ram_used_bytes(t, g) + p.n * SampleBytes <= RamBudget

route_check(t, g, r) ==
  LET adc    == count_adc_consuming(t) + (IF IsAdc(r) THEN 1 ELSE 0)
      tables == count_table_dacs(t, g) + (IF HasTable(r) THEN 1 ELSE 0)
  IN  /\ r.core # CORE_NONE => route_pin_reachable(r.core, r.pinsel) /\ ~core_in_use(t, r.core)
      /\ \A p \in g : ~uses_dac(r, p.dac)
      /\ SccpUsed(adc, tables) <= SccpCount /\ adc + tables <= DmaChannels
      /\ r.src = "DAC_PIN" => count_dac_pin(t, g) + 1 <= DacOutputs
      /\ r.src = "DAC_INT" => count_dac_int(t) + 1 <= UrefCount
      /\ ram_used_bytes(t, g) + Bytes(r) <= RamBudget
      /\ r.sink = "STREAM" /\ Len(t) < MaxRoutes

\* The shapes acquisition.c can bring up.
apply_shape_ok(r) == ~HasTable(r) /\ (r.src = "EXT" \/ (r.src = "DAC_PIN" /\ r.dac = 2))

----------------------------------------------------------------------------
RoutingInit == routes = <<>> /\ claimed = {}

route_record(r) == routes' = Append(routes, r) /\ UNCHANGED claimed
routing_add     == \E r \in Paths : route_check(routes, claimed, r) /\ route_record(r)
\* The set-up may fail; the boot configuration is back and nothing recorded.
routing_apply ==
  \E r \in Paths, setup \in BOOLEAN :
    /\ route_check(routes, claimed, r) /\ apply_shape_ok(r)
    /\ IF setup THEN route_record(r) ELSE UNCHANGED routingVars
routing_clear == routes' = <<>> /\ UNCHANGED claimed

routing_gen_claim ==
  \E p \in Plays : /\ routing_gen_check(routes, claimed, p)
                   /\ claimed' = {p} /\ UNCHANGED routes
routing_gen_release == claimed' = {} /\ UNCHANGED routes

RoutingNext == routing_add \/ routing_apply \/ routing_clear
               \/ routing_gen_claim \/ routing_gen_release
RoutingSpec == RoutingInit /\ [][RoutingNext]_routingVars

----------------------------------------------------------------------------
\* An ADC core is in one route only, and a DAC that the generator plays on
\* is the signal of no route - in whatever order they came
\* (core_in_use(), ROUTE_ERR_DAC_BUSY in both directions).
OneOwner ==
  /\ \A i, j \in DOMAIN routes : routes[i].core = routes[j].core /\ i # j
                                  => routes[i].core = CORE_NONE
  /\ \A i \in DOMAIN routes, p \in claimed : ~uses_dac(routes[i], p.dac)

\* Every route and the claim get hardware of their own, however they came:
\* a channel for each converting core and for each table that plays, a timer
\* for each table and one for all the cores, an output pin, the reference
\* line, and room in RAM (route_check() and routing_gen_check() each check
\* against a table the other has filled).
Converting == {i \in DOMAIN routes : IsAdc(routes[i])}
Playing    == {<<"route", i>> : i \in {j \in DOMAIN routes : HasTable(routes[j])}}
              \cup {<<"generator", p.dac>> : p \in claimed}
OnPin      == {<<"route", i>> : i \in {j \in DOMAIN routes : routes[j].src = "DAC_PIN"}}
              \cup {<<"generator", p.dac>> : p \in claimed}
WithinLimits ==
  /\ Cardinality(Converting) + Cardinality(Playing) <= DmaChannels
  /\ Cardinality(Playing) + (IF Converting = {} THEN 0 ELSE 1) <= SccpCount
  /\ Cardinality(OnPin) <= DacOutputs
  /\ Cardinality({i \in DOMAIN routes : routes[i].src = "DAC_INT"}) <= UrefCount
  /\ ram_used_bytes(routes, claimed) <= RamBudget

=============================================================================
