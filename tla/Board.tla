------------------------------- MODULE Board -------------------------------
(***************************************************************************)
(* The peripherals the firmware drives - the two DACs and their clock, the *)
(* DMA controller with its one address window, SCCP1 and SCCP2, the ADC    *)
(* core and its clock - and the driver calls that change them.             *)
(*                                                                         *)
(* Every call that writes a register is an action of its own: an interrupt *)
(* or the hardware may come between any two of them (Calls.tla).           *)
(***************************************************************************)
EXTENDS Calls, Naturals

CONSTANTS
  BufFirst,    \* address of the DMA buffer
  Tables,      \* where the linker may have put the generator's table
  Halves,      \* lengths of a buffer half the console may choose
  Lengths      \* lengths of a generator table

\* RAM does not begin at 0, and one half length is the longest.
ASSUME BoardAssumption ==
  /\ BufFirst \in Nat \ {0} /\ Tables \subseteq Nat \ {0}
  /\ Halves \subseteq Nat \ {0} /\ Lengths \subseteq Nat \ {0}
  /\ \E h \in Halves : \A k \in Halves : k <= h

VARIABLES
  dac,         \* per unit: "off", "level" or "triangle" (state[], DACxCON)
  clk,         \* dac: CLKGEN7; src: its source; trig: CLKGEN13; pll; div
  dma,         \* on, window, channels 0/1 and 2 and the ranges they use
  adc,         \* core, on, mode, trigger, IRQSEL, CPU interrupt, input
  sccp,        \* one, two: the timers run
  uref,        \* DAC2 is routed onto the internal reference line
  cap,         \* run_enabled, dma_armed, chain_mode, powered, half_len, was,
               \* busy: a burst may be in flight
  table        \* the generator's table in RAM

board == <<dac, clk, dma, adc, sccp, uref, cap>>
Units == {1, 2}
None  == <<0, 0>>

----------------------------------------------------------------------------
(* dac.c and CLKGEN7 (clock.c).                                            *)
AnyRunning == \E u \in Units : dac[u] # "off"

clock_dac_on ==
  /\ Now("clock_dac_on")
  /\ \/ clk' = [clk EXCEPT !.dac = "on", !.from = clk.src] /\ Done
     \/ clk' = [clk EXCEPT !.dac = "failed"] /\ Failed
  /\ UNCHANGED <<dac, dma, adc, sccp, uref, cap, table>>

\* The source is only noted; the next clock_dac_on() switches to it.
clock_dac_select ==
  /\ Now("clock_dac_select") /\ Done
  /\ clk' = [clk EXCEPT !.src = Arg]
  /\ UNCHANGED <<dac, dma, adc, sccp, uref, cap, table>>

dac_enable ==
  /\ Now("dac_enable") /\ Done
  /\ dac' = [dac EXCEPT ![Arg[1]] = Arg[2]]
  /\ UNCHANGED <<clk, dma, adc, sccp, uref, cap, table>>

\* Both starts: the clock, then the unit; without a clock the caller goes
\* its own way.
dac_start(u, as, skip, els) ==
  <<OrElse("clock_dac_on", 0, skip, els), Call("dac_enable", <<u, as>>)>>
dac_level_start(u, els)    == dac_start(u, "level", Everything, els)
dac_triangle_start(u, els) == dac_start(u, "triangle", Everything, els)

dac_unit_off ==
  /\ Now("dac_unit_off") /\ Done
  /\ dac' = [dac EXCEPT ![Arg] = "off"]
  /\ UNCHANGED <<clk, dma, adc, sccp, uref, cap, table>>

\* The last unit out turns the modules and their clock off.
dac_light_off ==
  /\ Now("dac_light_off") /\ Done
  /\ clk' = IF AnyRunning THEN clk ELSE [clk EXCEPT !.dac = "off"]
  /\ UNCHANGED <<dac, dma, adc, sccp, uref, cap, table>>

dac_off(u) == <<Call("dac_unit_off", u), Do("dac_light_off")>>

uref_set ==
  /\ Now("uref") /\ Done
  /\ uref' = Arg
  /\ UNCHANGED <<dac, clk, dma, adc, sccp, cap, table>>

----------------------------------------------------------------------------
(* dma.c: channels 0 and 1 carry the ADC, channel 2 the generator's table; *)
(* all of them are held to the one window DMALOW..DMAHIGH.                 *)
\* MUTANT: the window follows whichever channel was set up last.
WindowOfTheLast(w0, w1) == IF w1 = None THEN w0 ELSE w1

Window(w0, w1) ==
  CASE w1 = None -> w0
    [] w0 = None -> w1
    [] OTHER -> <<IF w1[1] < w0[1] THEN w1[1] ELSE w0[1],
                  IF w1[2] > w0[2] THEN w1[2] ELSE w0[2]>>

window_write ==
  /\ Now("window_write") /\ Done
  /\ dma' = [dma EXCEPT !.window = Window(dma.win0, dma.win1)]
  /\ UNCHANGED <<dac, clk, adc, sccp, uref, cap, table>>

\* ON = 0 ends every channel's operation: only while channel 2 is idle.
dma_off_if_idle ==
  /\ Now("dma_off_if_idle") /\ Done
  /\ dma' = [dma EXCEPT !.on = dma.ch2 /\ dma.on]
  /\ UNCHANGED <<dac, clk, adc, sccp, uref, cap, table>>

dma0_stop ==
  /\ Now("dma0_stop") /\ Done
  /\ dma' = [dma EXCEPT !.ch0 = FALSE, !.pair = FALSE]
  /\ UNCHANGED <<dac, clk, adc, sccp, uref, cap, table>>

dma0_window ==
  /\ Now("dma0_window") /\ Done
  /\ dma' = [dma EXCEPT !.win0 = Arg]
  /\ UNCHANGED <<dac, clk, adc, sccp, uref, cap, table>>

dma0_enable ==
  /\ Now("dma0_enable") /\ Done
  /\ dma' = [dma EXCEPT !.on = TRUE, !.ch0 = TRUE, !.range0 = Arg[1], !.pair = Arg[2]]
  /\ UNCHANGED <<dac, clk, adc, sccp, uref, cap, table>>

\* dma0_init() over one pair of halves, dma0_pp_init() over pairs A and B.
Arm(range, pair) ==
  <<Do("dma_off_if_idle"), Do("dma0_stop"), Call("dma0_window", range),
    Do("window_write"), Call("dma0_enable", <<range, pair>>)>>
dma0_init(h)    == Arm(<<BufFirst, BufFirst + 2 * h - 1>>, FALSE)
dma0_pp_init(h) == Arm(<<BufFirst, BufFirst + 4 * h - 1>>, TRUE)
dma0_deinit     == <<Do("dma0_stop"), Do("dma_off_if_idle")>>

dma2_stop ==
  /\ Now("dma2_stop") /\ Done
  /\ dma' = [dma EXCEPT !.ch2 = FALSE]
  /\ UNCHANGED <<dac, clk, adc, sccp, uref, cap, table>>

dma2_window ==
  /\ Now("dma2_window") /\ Done
  /\ dma' = [dma EXCEPT !.win1 = Arg]
  /\ UNCHANGED <<dac, clk, adc, sccp, uref, cap, table>>

\* CHEN is read back: a channel that did not come up is reported.
dma2_enable ==
  /\ Now("dma2_enable")
  /\ \/ dma' = [dma EXCEPT !.on = TRUE, !.ch2 = TRUE, !.range2 = Arg[1],
                           !.to = Arg[2]] /\ Done
     \/ dma' = [dma EXCEPT !.on = TRUE, !.range2 = Arg[1], !.to = Arg[2]] /\ Failed
  /\ UNCHANGED <<dac, clk, adc, sccp, uref, cap, table>>

TableRange(n) == <<table, table + n - 1>>
dma_tx_start(u, n, els) ==
  <<Do("dma2_stop"), Call("dma2_window", TableRange(n)), Do("window_write"),
    Try("dma2_enable", <<TableRange(n), u>>, els)>>

\* The window shrinks back to the buffer - once there has been a buffer.
dma2_window_back ==
  /\ Now("dma2_window_back")
  /\ Instead(IF dma.win0 # None THEN <<Do("window_write")>> ELSE <<>>)
  /\ UNCHANGED <<board, table>>
dma_tx_stop == <<Do("dma2_stop"), Call("dma2_window", None), Do("dma2_window_back")>>

----------------------------------------------------------------------------
(* sccp.c: SCCP1 triggers the ADC, SCCP2 paces the generator.  A start     *)
(* reads its registers back; one that fails leaves the module on.          *)
sccp1_start ==
  /\ Now("sccp1_start")
  /\ sccp' = [sccp EXCEPT !.one = TRUE]
  /\ Done \/ Failed
  /\ UNCHANGED <<dac, clk, dma, adc, uref, cap, table>>

sccp1_stop ==
  /\ Now("sccp1_stop") /\ Done
  /\ sccp' = [sccp EXCEPT !.one = FALSE]
  /\ UNCHANGED <<dac, clk, dma, adc, uref, cap, table>>

\* The two interrupts that count SCCP1's events.
sccp1_count ==
  /\ Now("sccp1_count") /\ Done
  /\ sccp' = [sccp EXCEPT !.count = Arg]
  /\ UNCHANGED <<dac, clk, dma, adc, uref, cap, table>>

\* A period of less than two ticks is refused before a register is written.
sccp2_start ==
  /\ Now("sccp2_start")
  /\ \/ sccp' = [sccp EXCEPT !.two = TRUE] /\ (Done \/ Failed)
     \/ UNCHANGED sccp /\ Failed
  /\ UNCHANGED <<dac, clk, dma, adc, uref, cap, table>>

sccp2_stop ==
  /\ Now("sccp2_stop") /\ Done
  /\ sccp' = [sccp EXCEPT !.two = FALSE]
  /\ UNCHANGED <<dac, clk, dma, adc, uref, cap, table>>

----------------------------------------------------------------------------
(* adc.c and the ADC's clock (clock.c).                                    *)
Adc(f, new) ==
  /\ Now(f) /\ Done
  /\ adc' = new
  /\ UNCHANGED <<dac, clk, dma, sccp, uref, cap, table>>

adc_deinit     == Adc("adc_deinit", [adc EXCEPT !.on = "off"])
adc_set_input  == Adc("adc_set_input", [adc EXCEPT !.input = Arg])
adc_set_mode_burst ==
  Adc("adc_set_mode_burst", [adc EXCEPT !.mode = "burst", !.trg1 = "software", !.trg2 = "b2b"])
adc_set_mode_single ==
  Adc("adc_set_mode_single", [adc EXCEPT !.mode = "single", !.trg1 = Arg, !.trg2 = "none"])
adc_set_mode_oversample ==
  Adc("adc_set_mode_oversample", [adc EXCEPT !.mode = "over", !.trg1 = "software", !.trg2 = "b2b"])
adc_set_trg2   == Adc("adc_set_trg2", [adc EXCEPT !.trg2 = Arg])
adc_set_irqsel == Adc("adc_set_irqsel", [adc EXCEPT !.irqsel = Arg])
adc_ch0_irq    == Adc("adc_ch0_irq", [adc EXCEPT !.irq = Arg])
adc_set_period == Adc("adc_set_period", [adc EXCEPT !.rptcnt = TRUE])
step_on        == Adc("step_on", [adc EXCEPT !.step = Arg])

adc_reinit ==
  /\ Now("adc_reinit")
  /\ \/ adc' = [adc EXCEPT !.on = "on"] /\ Done
     \/ adc' = [adc EXCEPT !.on = "failed"] /\ Failed
  /\ UNCHANGED <<dac, clk, dma, sccp, uref, cap, table>>

\* The whole channel is set up anew; a core that is not ready stops the
\* program (panic 5).
adc_init ==
  /\ Now("adc_init")
  /\ adc' = [adc EXCEPT !.core = Arg, !.on = "on", !.input = "own", !.mode = "burst",
                        !.trg1 = "software", !.trg2 = "b2b", !.irqsel = 0,
                        !.irq = adc.irq /\ Arg # "chain"]
  /\ Done \/ Leave(<<Do("panic")>>)
  /\ UNCHANGED <<dac, clk, dma, sccp, uref, cap, table>>

\* PLL1's output dividers, and CLKGEN6's divider: a switch that does not
\* come about leaves neither the old setting nor the new one.
Switch(f, field) ==
  /\ Now(f)
  /\ \/ clk' = [clk EXCEPT ![field] = Arg] /\ Done
     \/ clk' = [clk EXCEPT ![field] = "failed"] /\ Failed
  /\ UNCHANGED <<dac, dma, adc, sccp, uref, cap, table>>
clock_adc_set_pll == Switch("clock_adc_set_pll", "pll")
clock_adc_set_div == Switch("clock_adc_set_div", "div")
clock_trig_on     == Switch("clock_trig_on", "trig")
clock_adc_gate    == Switch("clock_adc_gate", "adc")

DriverCall ==
  \/ clock_dac_on \/ clock_dac_select \/ dac_enable \/ dac_unit_off \/ dac_light_off
  \/ uref_set \/ window_write \/ dma_off_if_idle \/ dma0_stop \/ dma0_window \/ dma0_enable
  \/ dma2_stop \/ dma2_window \/ dma2_enable \/ dma2_window_back
  \/ sccp1_start \/ sccp1_stop \/ sccp1_count \/ sccp2_start \/ sccp2_stop
  \/ adc_deinit \/ adc_set_input \/ adc_set_mode_burst \/ adc_set_mode_single
  \/ adc_set_irqsel \/ adc_ch0_irq \/ step_on \/ adc_reinit \/ adc_init
  \/ adc_set_mode_oversample \/ adc_set_trg2 \/ adc_set_period
  \/ clock_adc_set_pll \/ clock_adc_set_div \/ clock_trig_on \/ clock_adc_gate
=============================================================================
