------------------------------- MODULE Clock -------------------------------
(***************************************************************************)
(* The ADC's clock: PLL1's dividers, CLKGEN6's divider and the trigger     *)
(* clock CLKGEN13, as "rate", "pll", "clk" and "stream on" set them in any *)
(* order (clock.c; the settings' half of acquisition.c and capture.c).     *)
(* Frequencies are in kHz.                                                 *)
(***************************************************************************)
EXTENDS Integers

CONSTANTS
  Rates,          \* kSPS asked for with "rate"
  Postdivs,       \* the <<p1, p2>> asked for with "pll"
  Ratios,         \* the ratios, in hundredths, asked for with "clk"
  StreamRates,    \* kSPS asked for with "stream on"
  BoardPll        \* the board's <<p1, p2>> (board_cfg)

ASSUME RatesAssumption == Rates \subseteq Nat

FRC_KHZ == 8000
FbDivs  == 63..200                   \* the VCO's range: 500 .. 1600 MHz
Pairs   == {p \in (1..7) \X (1..7) : p[2] <= p[1]}
TRIG_KHZ_NOMINAL == 160000

VARIABLES
  fbdiv, postdiv,     \* PLL1DIV: PLLFBDIV, <<POSTDIV1, POSTDIV2>>
  clk6div,            \* CLK6DIV: <<INTDIV, FRACDIV>>
  clkdiv_cur,         \* the ratio last asked for
  got,                \* the last "rate": <<asked for, told>>, or <<>>
  period              \* the stream's trigger period n, 0 = no stream

clockVars == <<fbdiv, postdiv, clk6div, clkdiv_cur, got, period>>

----------------------------------------------------------------------------
(* What the registers say.                                                 *)
pll1_out_khz  == (FRC_KHZ * fbdiv) \div (postdiv[1] * postdiv[2])
Raw(div)      == div[1] * 512 + div[2]
clock_adc_div == IF Raw(clk6div) = 0 THEN 100 ELSE (Raw(clk6div) * 200 + 256) \div 512
clock_adc_khz == (pll1_out_khz * 100) \div clock_adc_div
clock_trig_khz == pll1_out_khz \div 2
capture_nominal_ksps == clock_adc_khz \div 8

(* "rate": the pair and the feedback divider closest to the wish.          *)
Far(a, b) == IF a > b THEN a - b ELSE b - a
rate_of(fb, p) == (fb * 1000) \div p
InRange(k) == 4000 <= k /\ k <= 40000
\* MUTANT: the feedback divider is cut off, not rounded.
FbCutOff(want, pair) == (want * pair[1] * pair[2]) \div 1000
FbFor(want, pair) == (want * pair[1] * pair[2] + 500) \div 1000
RateWith(want, pair) == rate_of(FbFor(want, pair), pair[1] * pair[2])
Fits(want, pair) == FbFor(want, pair) \in FbDivs /\ InRange(RateWith(want, pair))
\* The search's order: POSTDIV1 upwards, under it POSTDIV2.
Before(x, y) == x[1] < y[1] \/ (x[1] = y[1] /\ x[2] < y[2])
BestPair(want) ==
  IF \A p \in Pairs : ~Fits(want, p) THEN <<5, 1>>
  ELSE CHOOSE best \in Pairs :
         /\ Fits(want, best)
         /\ \A p \in Pairs : Fits(want, p) =>
              \/ Far(RateWith(want, best), want) < Far(RateWith(want, p), want)
              \/ /\ Far(RateWith(want, best), want) = Far(RateWith(want, p), want)
                 /\ ~Before(p, best)

(* "clk": INTDIV and FRACDIV of a ratio; ratios from 1 to 2 have neither.  *)
RatioLegal(r) == r \in 100..1000 /\ r \notin 101..199
DividerOf(r)  == IF r = 100 THEN <<0, 0>>
                 ELSE <<r \div 200, ((r % 200) * 512 + 100) \div 200>>

(* "stream on": the trigger's period, 40 MSPS at most.                     *)
period_for(ksps) ==
  LET n == (TRIG_KHZ_NOMINAL + ksps \div 2) \div ksps IN IF n < 4 THEN 4 ELSE n
acq_ksps_of(n) == (TRIG_KHZ_NOMINAL + n \div 2) \div n

----------------------------------------------------------------------------
ClockInit ==
  /\ fbdiv = 200 /\ postdiv = BoardPll /\ clk6div = <<0, 0>> /\ clkdiv_cur = 100
  /\ got = <<>> /\ period = 0

\* capture_set_rate(): the stream goes down first.  A wish out of range is
\* refused, a write that did not arrive changes nothing, a wait that runs
\* out leaves the new value.
clock_adc_set_rate ==
  /\ \E want \in Rates :
       LET best == BestPair(want)
           fb   == IF Fits(want, best) THEN FbFor(want, best) ELSE 200
       IN  \/ /\ InRange(want)
              /\ fbdiv' = fb /\ postdiv' = best
              /\ got' \in {<<want, rate_of(fb, best[1] * best[2])>>, <<>>}
           \/ UNCHANGED <<fbdiv, postdiv>> /\ got' = <<>>
  /\ period' = 0
  /\ UNCHANGED <<clk6div, clkdiv_cur>>

\* capture_set_pll(): both are three bits, POSTDIV1 the larger.
SetPostdiv(p) == p \in Pairs /\ (postdiv' = p \/ UNCHANGED postdiv)
clock_adc_set_pll ==
  /\ \E p \in Postdivs : SetPostdiv(p)
  /\ got' = <<>> /\ period' = 0
  /\ UNCHANGED <<fbdiv, clk6div, clkdiv_cur>>

\* capture_set_clkdiv(): a switch may fail with the register written or lost.
clock_adc_set_div ==
  /\ \E r \in Ratios :
       /\ RatioLegal(r)
       /\ \/ clk6div' = DividerOf(r) /\ clkdiv_cur' = r
          \/ clk6div' \in {clk6div, DividerOf(r)} /\ UNCHANGED clkdiv_cur
  /\ got' = <<>> /\ period' = 0
  /\ UNCHANGED <<fbdiv, postdiv>>

\* acq_chain_setup(): PLL1's output dividers to 5 and 1, then the trigger;
\* and back to the board's when the stream is taken down.
stream_on ==
  /\ \/ postdiv' = <<5, 1>> /\ \E k \in StreamRates : period' = period_for(k)
     \/ SetPostdiv(BoardPll) /\ period' = 0                   \* refused: restored
  /\ got' = <<>>
  /\ UNCHANGED <<fbdiv, clk6div, clkdiv_cur>>
stream_off ==
  /\ period # 0 /\ period' = 0 /\ SetPostdiv(BoardPll) /\ got' = <<>>
  /\ UNCHANGED <<fbdiv, clk6div, clkdiv_cur>>

ClockNext == clock_adc_set_rate \/ clock_adc_set_pll \/ clock_adc_set_div
             \/ stream_on \/ stream_off
ClockSpec == ClockInit /\ [][ClockNext]_clockVars

----------------------------------------------------------------------------
\* "rate" tells the rate the registers then hold, at the divider in force,
\* and no setting that keeps the VCO and the ADC in their ranges comes
\* closer to the wish (clock.h: "the combination closest to the wish"; the
\* search tries one feedback divider per pair only).
BestRate ==
  got # <<>> =>
    /\ fbdiv \in FbDivs /\ InRange(got[2])
    /\ clk6div = <<0, 0>> => Far(capture_nominal_ksps, got[2]) <= 1
    /\ \A fb \in FbDivs, p \in Pairs :
         LET k == rate_of(fb, p[1] * p[2])
         IN  InRange(k) => Far(got[2], got[1]) <= Far(k, got[1])

\* A standing stream is triggered at the rate it reports: the trigger clock
\* is the one the period was computed for (routing.c:352, "PLL1 at 320 MHz").
StreamRateTrue == period # 0 => clock_trig_khz = TRIG_KHZ_NOMINAL
=============================================================================
