-------------------------------- MODULE Lab --------------------------------
(***************************************************************************)
(* The laboratory commands (src/lab): the chain test ("chain"), the suite  *)
(* of the back-to-back chain ("test", "sweep", "snap", "dactest", "clk").  *)
(* Each is a long sequence of set-ups and measurements on the one board,   *)
(* and a set-up can fail anywhere in it.  What is measured is data; kept   *)
(* is under which set-up each measurement is taken, and which rates passed *)
(* which stage.                                                            *)
(***************************************************************************)
EXTENDS Session, FiniteSets

CONSTANTS
  Rates,       \* the ladder, slowest first: 1 .. n
  Spans,       \* <<first, last>> of the "chain" commands typed
  MaxTyped,    \* bound: commands typed in the groups "chain" and "bench"
  Users        \* "core", "chain", "bench": whose commands are typed

ASSUME LabAssumption ==
  /\ IsFiniteSet(Rates) /\ Rates = 1 .. Cardinality(Rates)
  /\ Spans \subseteq (0 .. 9) \X (0 .. 9)

VARIABLES
  clkdiv_cur,      \* the divider of CLKGEN6 as the firmware knows it
  var_known,       \* capture_variant_ksps() # 0
  ran, passed,     \* s4_run..s6_run; s4_ok..s6_ok
  data,            \* s4_data: the rates counted with IRQSEL = 1
  trigger_ok, g_best, g_s9_best_ok,
  span,            \* the stages of the running "chain" command
  lost,            \* a matrix could not select its last variant
  typed,           \* how many commands so far (bound)
  user

flags   == <<ran, passed, data, trigger_ok, g_best, g_s9_best_ok, span>>
labSoft == <<clkdiv_cur, var_known, flags, lost, typed, user>>
labVars == <<vars, labSoft>>
keep    == UNCHANGED <<board, table, soft>>

LabInit ==
  /\ SessionInit
  /\ clkdiv_cur = "undivided" /\ var_known = FALSE /\ lost = FALSE
  /\ ran = {} /\ passed = [s \in 4..6 |-> {}] /\ data = {} /\ trigger_ok = TRUE
  /\ g_best = 0 /\ g_s9_best_ok = FALSE /\ span = <<0, 0>>
  /\ typed = 0 /\ user \in Users

----------------------------------------------------------------------------
(* A measurement and what the command claims to measure with: the channel's*)
(* mode and triggers, IRQSEL, the CPU interrupt, the stepped level, PLL,   *)
(* divider, SCCP1, DAC2, input and core.                                   *)
Unsaid == "unsaid"
Claim(mode, t1, t2, irqsel, irq, step, pll, div, timer, dac2, input, core) ==
  <<Call("measure", <<mode, t1, t2, irqsel, irq, step, pll, div, timer, dac2, input, core>>)>>

Triggered(d, irq, step, dac2, input) ==
  Claim("single", "sccp1", "none", IF d THEN 1 ELSE 0, irq, step, "chain", Unsaid, TRUE,
        dac2, input, "chain")
Burst(pll, div, input) ==
  Claim("burst", "software", "b2b", 0, FALSE, FALSE, pll, div, FALSE, Unsaid, input, "boot")

measure == Now("measure") /\ Done /\ keep /\ UNCHANGED labSoft

----------------------------------------------------------------------------
(* capture.c, acquisition.c and meter.c as the tests use them.             *)
set_level == dac_start(2, "level", 1, <<>>)          \* dac2_level_start()
reinit    == Note("adc_reinit", 0, <<>>)

capture_set_clkdiv(r) ==
  <<Do("settle"), Do("adc_deinit"), OrElse("clock_adc_set_div", r, 2, <<reinit>>),
    reinit, Call("clkdiv_cur", r), Do("restart")>>

capture_oneshot_n(c) ==
  <<Do("settle"), Do("capture_start")>> \o c \o <<capture_stop>>
capture_oneshot(c) == capture_oneshot_n(c) \o <<Do("settle")>>

measure_rate(c) ==
  <<Do("settle"), Do("capture_start")>> \o c \o <<Do("settle")>>

\* The input of the self-test is put back while its bursts still run.
capture_selftest ==
  /\ Now("selftest")
  /\ Instead(<<Do("settle"), Call("adc_set_input", "internal"), Do("capture_start")>>
             \o Burst(Unsaid, Unsaid, "internal")
             \o <<Call("adc_set_input", adc.input)>>
             \o (IF cap.run THEN <<>> ELSE <<capture_stop>>))
  /\ keep /\ UNCHANGED labSoft

capture_clkoff_probe(c) ==
  <<Do("settle"), Do("adc_deinit"), Call("clock_adc_gate", "off"), reinit, Do("capture_start")>>
  \o c
  \o <<Do("settle"), Do("adc_deinit"), Note("clock_adc_gate", "on", <<>>), reinit>>

set_clkdiv_cur ==
  /\ Now("clkdiv_cur") /\ Done /\ clkdiv_cur' = Arg
  /\ keep /\ UNCHANGED <<var_known, flags, lost, typed, user>>

set_var_known ==
  /\ Now("var_known") /\ Done /\ var_known' = Arg
  /\ keep /\ UNCHANGED <<clkdiv_cur, flags, lost, typed, user>>

----------------------------------------------------------------------------
(* capture_select_variant(): ten ways to set the sample rate.  A selection *)
(* that fails leaves out the `after' calls that measure with it.           *)
Timer == {"per", "g13", "old", "trg2"}
Variants == <<"b2b", "per", "g13", "old", "trg2", "rptcnt", "over", "clkdiv">>

\* MUTANT: the trigger and the mode are set, the clock is taken as found.
WithoutBase(v) == <<Do("settle"), Do("sccp1_stop"), Call("var_known", FALSE)>>

Base(v) ==
  <<Do("settle"), Do("sccp1_stop"), Call("var_known", FALSE)>>
  \o (IF v = "b2b" THEN <<>>
      ELSE <<Do("adc_deinit"), Note("clock_adc_set_div", "undivided", <<>>),
             Note("clock_adc_set_pll", "chain", <<>>), reinit>>)

timer_variant(v, after) ==
  (IF v \in {"g13", "trg2"}
   THEN <<OrElse("clock_trig_on", "on", IF v = "trg2" THEN after + 3 ELSE after + 2, <<>>)>>
   ELSE <<>>)
  \o (IF v = "trg2"
      THEN <<OrElse("sccp1_start", 0, after + 2, <<>>), Do("adc_set_mode_burst"),
             Call("adc_set_trg2", "sccp1")>>
      ELSE <<OrElse("sccp1_start", 0, after + 1, <<>>),
             Call("adc_set_mode_single", IF v = "old" THEN "sccp3" ELSE "sccp1")>>)

Mechanism(v, after) ==
  CASE v = "b2b" ->
         <<Do("adc_deinit"), OrElse("clock_adc_set_pll", "row", after + 2, <<reinit>>),
           OrElse("adc_reinit", 0, after + 1, <<>>), Do("adc_set_mode_burst")>>
    [] v \in Timer -> timer_variant(v, after)
    [] v = "rptcnt" ->
         <<Do("adc_set_mode_burst"), Do("adc_set_period"), Call("adc_set_trg2", "rptcnt")>>
    [] v = "over" -> <<Do("adc_set_mode_oversample")>>
    [] OTHER ->                                      \* "clkdiv"
         <<Do("adc_deinit"), OrElse("clock_adc_set_div", "divided", after + 2, <<reinit>>),
           reinit, Do("adc_set_mode_burst")>>

capture_select_variant(v, after) ==
  Base(v) \o Mechanism(v, after + 1) \o <<Call("var_known", TRUE)>>

VariantClaim(v, input) ==
  LET burst == v \in {"b2b", "trg2", "rptcnt", "clkdiv"}
  IN  Claim(CASE burst -> "burst" [] v = "over" -> "over" [] OTHER -> "single",
            CASE burst \/ v = "over" -> "software" [] v = "old" -> "sccp3" [] OTHER -> "sccp1",
            CASE v = "trg2" -> "sccp1" [] v = "rptcnt" -> "rptcnt"
              [] v \in Timer -> "none" [] OTHER -> "b2b",
            0, FALSE, FALSE, IF v = "b2b" THEN "row" ELSE "chain",
            CASE v = "b2b" -> Unsaid [] v = "clkdiv" -> "divided" [] OTHER -> "undivided",
            v \in Timer, Unsaid, input, "boot")

----------------------------------------------------------------------------
(* bench.c and cli_lab.c: the suite of the back-to-back chain.  A call that *)
(* only stands for others is expanded when its turn comes.                 *)
Expand(f, calls) == Now(f) /\ Instead(calls) /\ keep /\ UNCHANGED labSoft
Each(f)          == [i \in DOMAIN Variants |-> Call(f, Variants[i])]
Own(pll)         == Burst(pll, Unsaid, "own")

\* run_dactest(), under the claim of the variant it checks.  DAC2 goes onto
\* the reference line; the read-back of that may fail.
run_dactest == \/ Expand("run_dactest", <<Call("uref", TRUE)>>)
               \/ Expand("run_dactest",
                    <<Call("uref", TRUE), Call("adc_set_input", "uref"), Do("siggen_stop"),
                      Call("dactest_run", Arg), Call("adc_set_input", adc.input),
                      Call("uref", FALSE)>>)
dactest_run ==
  LET unit == IF dac[2] # "off" THEN 2 ELSE 1
  IN  Expand("dactest_run",
        IF AnyRunning
        THEN (IF var_known THEN dac_start(unit, "triangle", 1, <<>>) ELSE <<>>)
             \o capture_oneshot(IF Arg = Unsaid THEN Burst(Unsaid, Unsaid, "uref")
                                             ELSE VariantClaim(Arg, "uref"))
        ELSE <<>>)

\* One row of the rate ladder: left out when the clock did not switch.
sweep_row ==
  <<Do("settle"), Do("adc_deinit"),
    OrElse("clock_adc_set_pll", "row", 3, <<reinit, Do("restart")>>),
    OrElse("adc_reinit", 0, 2, <<Do("restart")>>), Do("restart"), Do("row")>>
row == Expand("row", capture_oneshot(Own("row")) \o capture_oneshot(Own("row"))
                     \o measure_rate(Own("row")) \o measure_rate(Own("row")))
console_sweep ==
  Expand("sweep", sweep_row \o sweep_row \o capture_set_pll("board", <<>>)
                  \o (IF cap.run THEN <<Do("capture_start")>> ELSE <<>>))

test_clock == capture_set_clkdiv("divided") \o capture_set_clkdiv("undivided")
test_clkoff == capture_clkoff_probe(Own(Unsaid))

\* A variant at a rate: selected, then measured - not at all when the
\* selection fails.
matrix_point  == Expand("point", capture_select_variant(Arg, 1) \o <<Call("shot", Arg)>>)
matrix_shot   == Expand("shot", capture_oneshot(VariantClaim(Arg, "own")))
matrix_stream == Expand("flow", measure_rate(VariantClaim(Arg, "own")))

Flow(v) == capture_select_variant(v, 1) \o <<Call("flow", v)>>
Data(v) == capture_select_variant(v, 2) \o <<Call("run_dactest", v), Call("run_dactest", v)>>
flows   == Expand("flows", <<>>) \/ Expand("flows", Flow(Arg) \o Flow(Arg))
datas   == Expand("datas", <<>>) \/ Expand("datas", Data(Arg))
cmd_matrix ==
  Each("point") \o Each("flows") \o Each("datas")
  \o capture_select_variant("b2b", 0) \o capture_set_pll("board", <<>>) \o <<Do("back")>>

\* The last selection may fail and leave the mode of the one before.
back ==
  /\ Now("back") /\ Done
  /\ lost' = (lost \/ adc.mode # "burst" \/ adc.trg2 # "b2b")
  /\ keep /\ UNCHANGED <<clkdiv_cur, var_known, flags, typed, user>>

\* B2B at one rate after the other.
test_bursts == <<Call("point", "b2b"), Call("point", "b2b")>>

\* DAC2's triangle is started unless it runs, and stays on.
test_dac ==
  Expand("test_dac", (IF dac[2] = "off"
                      THEN dac_start(2, "triangle", 3, <<>>) \o <<Call("ask", 2)>>
                      ELSE <<>>) \o <<Call("run_dactest", Unsaid)>>)

\* "test all" goes on only when the self-test passed.
self_ok == Now("self_ok") /\ (Done \/ Leave(<<>>)) /\ keep /\ UNCHANGED labSoft
test_all ==
  capture_set_clkdiv("undivided") \o <<Do("selftest"), Do("self_ok")>> \o test_clock
  \o test_clkoff \o test_bursts \o <<Do("sweep")>> \o cmd_matrix \o <<Do("test_dac")>>

----------------------------------------------------------------------------
(* chaintest.c: the stages.  What a stage finds out is chosen; which rates *)
(* it found good is remembered for the summary.                            *)
Good(s, r) == passed' = [passed EXCEPT ![s] = @ \cup {r}]
Found      == keep /\ UNCHANGED <<clkdiv_cur, var_known, ran, trigger_ok, g_best, g_s9_best_ok,
                                  span, lost, typed, user>>

adc_collect(step, input) ==
  <<Do("settle"), Call("adc_ch0_irq", TRUE), Note("sccp1_start", 0, <<>>)>>
  \o Triggered(FALSE, TRUE, step, "level", input)
  \o <<Do("sccp1_stop"), Call("adc_ch0_irq", FALSE)>>

counted_timer == <<Call("sccp1_count", TRUE), Note("sccp1_start", 0, <<>>), Do("sccp1_stop"),
                   Call("sccp1_count", FALSE)>>
stage1 == <<Do("settle"), Note("sccp1_start", 0, <<>>), Do("sccp1_stop")>> \o counted_timer

stage2 ==
  set_level \o adc_collect(FALSE, "own")
  \o <<Do("settle"), Call("adc_set_input", "samc31")>> \o adc_collect(FALSE, "samc31")
  \o <<Call("adc_set_input", "own"), Call("uref", TRUE), Call("adc_set_input", "uref")>>
  \o set_level \o adc_collect(FALSE, "uref")
  \o <<Call("adc_set_input", "own"), Call("uref", FALSE)>>
  \o set_level
  \o <<Do("settle"), Call("sccp1_count", TRUE), Call("adc_ch0_irq", TRUE),
       Note("sccp1_start", 0, <<>>)>>
  \o Triggered(FALSE, TRUE, FALSE, "level", "own")
  \o <<Do("sccp1_stop"), Call("adc_ch0_irq", FALSE), Call("sccp1_count", FALSE),
       Do("triggers")>>
  \o set_level \o <<Call("step_on", TRUE)>> \o adc_collect(TRUE, "own")
  \o <<Call("step_on", FALSE)>>

triggers ==
  /\ Now("triggers") /\ Done /\ trigger_ok' \in BOOLEAN
  /\ keep /\ UNCHANGED <<clkdiv_cur, var_known, ran, passed, data, g_best, g_s9_best_ok,
                         span, lost, typed, user>>

\* A window of the triggered chain; a start that fails has none.
window(d, irq, step, dac2) ==
  capture_chain_start(1, <<>>) \o Triggered(d, irq, step, dac2, "own") \o capture_chain_stop

stage3 ==
  set_level \o <<Call("step_on", TRUE), Call("adc_ch0_irq", TRUE)>>
  \o window(FALSE, TRUE, TRUE, "level")
  \o <<Call("adc_ch0_irq", FALSE), Call("step_on", FALSE)>>

IrqSel(d)   == <<Call("adc_set_irqsel", IF d THEN 1 ELSE 0)>>
count_at(d) == IrqSel(d) \o window(d, FALSE, FALSE, "level") \o IrqSel(FALSE)

\* A rate that does not count with the result as DMA source is tried with
\* the channel's data.
counted ==
  \/ Now("counted") /\ Good(4, Arg) /\ Done /\ UNCHANGED data /\ Found
  \/ Expand("counted", count_at(TRUE) \o <<Call("recounted", Arg)>>)
recounted ==
  /\ Now("recounted") /\ Done /\ Found
  /\ \/ Good(4, Arg) /\ data' = data \cup {Arg}
     \/ UNCHANGED <<passed, data>>

count_rate == Expand("count", count_at(FALSE) \o <<Call("counted", Arg)>>)
stage4 == set_level \o [r \in Rates |-> Call("count", r)]

\* grid_at(): no window without the triangle.
grid_at == Expand("grid",
  LET d == Arg[1] \in data
  IN  (IF d THEN IrqSel(TRUE) ELSE <<>>)
      \o dac_start(2, "triangle", 4, IrqSel(FALSE))
      \o <<Call("grid window", d), Call("adc_set_irqsel", 0), Call("result", Arg)>>)
grid_window == Expand("grid window", window(Arg, FALSE, FALSE, "triangle"))
Eight       == 1                                     \* IDX_8MSPS
stage5 ==
  [r \in Rates |-> Call("grid", <<r, 5>>)]
  \o <<Call("clock_dac_select", "pll2"), Call("grid", <<Eight, 0>>),
       Call("clock_dac_select", "pll1")>> \o set_level

\* s5_ok, s6_ok and g_s9_best_ok: what stage Arg[2] found of rate Arg[1].
result ==
  /\ Now("result") /\ Done
  /\ \/ Arg[2] \in 5..6 /\ Good(Arg[2], Arg[1]) /\ UNCHANGED g_s9_best_ok
     \/ Arg[2] = 9 /\ g_s9_best_ok' = TRUE /\ UNCHANGED passed
     \/ UNCHANGED <<passed, g_s9_best_ok>>
  /\ keep /\ UNCHANGED <<clkdiv_cur, var_known, ran, data, trigger_ok, g_best, span, lost, typed, user>>

stream_for(d) == IrqSel(d) \o window(d, FALSE, FALSE, "level") \o IrqSel(FALSE)
stream_rate == Expand("stream rate",
  IF Arg[2] = 6 /\ 4 \in ran /\ Arg[1] \notin passed[4] THEN <<>>
  ELSE stream_for(Arg[1] \in data) \o <<Call("result", Arg)>>)
stage6 == set_level \o <<Do("settle")>> \o [r \in Rates |-> Call("stream rate", <<r, 6>>)]

start_check == <<Do("settle")>> \o window(FALSE, FALSE, FALSE, Unsaid)
stage7 ==
  set_level \o start_check \o start_check
  \o dac_start(2, "triangle", 2, <<>>) \o <<Do("two windows")>> \o set_level
two_windows == Expand("two windows", window(FALSE, FALSE, FALSE, "triangle")
                                     \o window(FALSE, FALSE, FALSE, "triangle"))

\* The old questions: the divider, the generator off, bursts at two PLLs.
ByBurst(pll, dac2) ==
  Claim("burst", "software", "b2b", 0, FALSE, FALSE, pll, Unsaid, FALSE, dac2, "own", "chain")
b2b_window(pll) ==
  capture_set_pll(pll, <<>>) \o dac_start(2, "triangle", 1, <<>>)
  \o capture_oneshot(ByBurst(pll, "triangle"))
stage8 ==
  test_clock
  \o dac_start(2, "triangle", 1, <<>>)
  \o <<Do("settle"), Do("adc_deinit"), Call("clock_adc_gate", "off"),
       Note("clock_adc_gate", "on", <<>>), reinit, Do("adc_set_mode_burst")>>
  \o capture_clkoff_probe(ByBurst("chain", "triangle"))
  \o b2b_window("row") \o b2b_window("chain")
  \o capture_set_pll("chain", <<>>) \o <<Call("adc_set_mode_single", "sccp1")>> \o set_level

\* MUTANT: a rate that lost samples under processing is still the best.
BestOfGrid ==
  LET good == {r \in Rates : \A s \in ran \cap {4, 5} : r \in passed[s]}
  IN  IF ran = {} \/ good = {} THEN 0 ELSE CHOOSE r \in good : \A q \in good : q <= r

best_index ==
  LET good == {r \in Rates : \A s \in ran : r \in passed[s]}
  IN  IF ran = {} \/ good = {} THEN 0 ELSE CHOOSE r \in good : \A q \in good : q <= r

stage9 == set_level \o <<Do("best"), Do("attempt")>>
best ==
  /\ Now("best") /\ Done /\ g_best' = best_index /\ g_s9_best_ok' = FALSE
  /\ keep /\ UNCHANGED <<clkdiv_cur, var_known, ran, passed, data, trigger_ok, span, lost, typed, user>>
attempt == Expand("attempt",
  (IF g_best # 0 THEN <<Call("stream rate", <<g_best, 9>>)>> ELSE <<>>)
  \o (IF g_best # Eight THEN <<Call("stream rate", <<Eight, 0>>)>> ELSE <<>>))

----------------------------------------------------------------------------
(* chain_all() and chain_run().                                            *)
Stage(s) == CASE s = 0 -> <<>> [] s = 1 -> stage1 [] s = 2 -> stage2 [] s = 3 -> stage3
              [] s = 4 -> stage4 [] s = 5 -> stage5 [] s = 6 -> stage6 [] s = 7 -> stage7
              [] s = 8 -> stage8 [] s = 9 -> stage9

begin ==
  /\ Now("begin") /\ Done
  /\ ran' = {} /\ passed' = [s \in 4..6 |-> {}] /\ data' = {} /\ trigger_ok' = TRUE
  /\ g_best' = 0 /\ g_s9_best_ok' = FALSE /\ span' = Arg
  /\ keep /\ UNCHANGED <<clkdiv_cur, var_known, lost, typed, user>>

\* A stage is left out without the set-up, and, but for the reads of stage
\* 0 to 2 and the questions of stage 8, without triggers that convert.
stage ==
  /\ Now("stage")
  /\ LET runs == (ok \/ Arg = 0) /\ (trigger_ok \/ Arg < 3 \/ Arg = 8)
     IN  /\ Instead(IF runs THEN Stage(Arg) ELSE <<>>)
         /\ ran' = IF runs /\ Arg \in 4..6 THEN ran \cup {Arg} ELSE ran
  /\ keep /\ UNCHANGED <<clkdiv_cur, var_known, passed, data, trigger_ok, g_best,
                         g_s9_best_ok, span, lost, typed, user>>
summary == Now("summary") /\ Done /\ keep /\ UNCHANGED labSoft

chain_setup == acq_chain_setup("chain", TRUE, MaxHalf)
chain_all(first, last) ==
  <<Do("siggen_stop"), Do("stream_off"), Call("begin", <<first, last>>)>> \o chain_setup
  \o [s \in 1..(last - first + 1) |-> Call("stage", first + s - 1)]
  \o <<Do("summary")>> \o acq_chain_restore

chain_run ==
  <<Do("siggen_stop"), Do("stream_off")>> \o chain_setup \o <<Do("run stream")>>
  \o acq_chain_restore
run_stream == Expand("run stream", IF ok THEN set_level \o stream_for(FALSE) ELSE <<>>)

----------------------------------------------------------------------------
(* The console: the commands of the group the user works with, next to the *)
(* streams and the triangles of the core.                                  *)
Type1(A) == A /\ typed < MaxTyped /\ typed' = typed + 1
            /\ UNCHANGED <<clkdiv_cur, var_known, flags, lost, user>>
TypeLab(p) == Type1(Type(p))
Chain      == user = "chain" /\ \E s \in Spans : TypeLab(chain_all(s[1], s[2]))
ChainRun   == TypeLab(chain_run)
Tests      == {test_clock, test_clkoff, test_bursts, cmd_matrix, test_all, <<Do("sweep")>>,
               <<Do("selftest")>>, measure_rate(Own(Unsaid)), <<Do("test_dac")>>}
Test       == \E t \in Tests : TypeLab(<<Do("siggen_stop"), Do("stream_off")>> \o t)

\* These do not take a stream down first (README: what they do under one).
Bench == {<<Do("siggen_stop"), Do("sweep")>>, <<Do("capture_start")>>, <<capture_stop>>,
          capture_oneshot(Own(Unsaid)), <<Call("run_dactest", Unsaid)>>, <<Do("selftest")>>,
          capture_set_clkdiv("divided"), capture_set_clkdiv("undivided")}
BenchCommand == ~stream /\ \E c \in Bench : TypeLab(c)

LabCommand ==
  \/ Chain
  \/ user = "bench" /\ (Test \/ BenchCommand \/ ChainRun)
  \/ Type1(StreamOn \/ (user = "bench" /\ DacOn))

LabCall ==
  \/ measure \/ capture_selftest \/ set_clkdiv_cur \/ set_var_known
  \/ run_dactest \/ dactest_run \/ row \/ console_sweep \/ matrix_point \/ matrix_stream
  \/ matrix_shot \/ flows \/ datas \/ back \/ test_dac \/ self_ok
  \/ triggers \/ count_rate \/ counted \/ recounted \/ grid_at \/ grid_window \/ result \/ stream_rate
  \/ two_windows \/ best \/ attempt \/ begin \/ stage \/ summary \/ run_stream

LabNext ==
  \/ user = "core" /\ SessionNext /\ UNCHANGED labSoft
  \/ user # "core" /\ LabCommand
  \/ LabCall
  \/ user # "core" /\ (SessionCall \/ (DriverCall /\ UNCHANGED soft) \/ Brake)
     /\ UNCHANGED labSoft
LabSpec == LabInit /\ [][LabNext]_labVars

----------------------------------------------------------------------------
\* Every measurement of the laboratory is taken with the channel set up the
\* way its heading says - mode, triggers, IRQSEL, interrupt, stepped level,
\* PLL, divider, timer, DAC2, input, core -, whatever the commands, stages
\* and variants before it left behind and whichever of their set-ups failed
\* (bench.c, chaintest.c; what a failed switch itself left is excused).
Is(x, c) == c = Unsaid \/ x = c \/ x = "failed"
MeasuredAsClaimed ==
  Now("measure") =>
    \/ lost /\ Arg[8] = Unsaid
    \/ /\ Is(adc.mode, Arg[1]) /\ Is(adc.trg1, Arg[2]) /\ Is(adc.trg2, Arg[3])
       /\ adc.irqsel = Arg[4] /\ adc.irq = Arg[5] /\ adc.step = Arg[6]
       /\ Is(clk.pll, Arg[7]) /\ Is(clk.div, Arg[8]) /\ sccp.one = Arg[9]
       /\ Is(dac[2], Arg[10]) \/ clk.dac = "failed"
       /\ Is(adc.input, Arg[11]) /\ Is(adc.core, Arg[12])

\* The rate the chain test tells the user to use passed every stage this
\* very command ran, was streamed under processing, and no faster rate of
\* the ladder did as well (chaintest.c, best_index() and summary()).
StagesRun == (span[1]..span[2]) \cap 4..6
AllPassed(r) == \A s \in StagesRun : r \in passed[s]
ChosenRatePassed ==
  Now("summary") /\ g_best # 0 /\ g_s9_best_ok =>
    /\ StagesRun # {} /\ 9 \in span[1]..span[2] /\ AllPassed(g_best)
    /\ \A r \in Rates : r > g_best => ~AllPassed(r)

\* After a command of the core or of the chain test the boot set-up is back
\* (Session.tla, acq_chain_restore()); the back-to-back suite changes it.
BootAfterChain == user # "bench" => AtBootSetup

\* MATRIX: what "test matrix" prints last is so: "done - back at the boot
\* setting" (bench.c:736).
BackAtBoot == Rest /\ ~stream => clk.div \in {clkdiv_cur, "failed"}
=============================================================================
