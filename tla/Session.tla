------------------------------ MODULE Session ------------------------------
(***************************************************************************)
(* The commands of the core firmware that share the board: the DACs' test  *)
(* triangles ("dac"), the signal generator ("siggen"), the triggered       *)
(* stream ("stream") and the buffer length ("buf").  They are typed in any *)
(* order; each runs to its end, one driver call at a time, while the       *)
(* overrun brake of the DMA interrupt may hit between any two calls.       *)
(***************************************************************************)
EXTENDS Board

VARIABLES
  gen,         \* the DAC the signal generator plays on, 0 = none (s_on, s_dac)
  claim,       \* the DAC the route table holds for it (gen_dac)
  route,       \* the recorded route: "none", "signal" or "input"
  stream,      \* a standing stream (acquisition.c's s_on)
  ok,          \* acq_setup_ok
  asked        \* DAC units whose triangle the user has asked for

soft == <<gen, claim, route, stream, ok, asked>>
vars == <<todo, slips, board, table, soft>>
MaxHalf == CHOOSE h \in Halves : \A k \in Halves : k <= h

SessionInit ==
  /\ todo = <<>> /\ slips = 0
  /\ dac = [u \in Units |-> "off"]
  /\ clk = [dac |-> "off", src |-> "pll1", from |-> "pll1", trig |-> "off",
            pll |-> "board", div |-> "undivided", adc |-> "on"]
  /\ dma = [on |-> FALSE, window |-> <<BufFirst, BufFirst + 2 * MaxHalf - 1>>,
            win0 |-> <<BufFirst, BufFirst + 2 * MaxHalf - 1>>, win1 |-> None,
            ch0 |-> FALSE, pair |-> FALSE, range0 |-> None,
            ch2 |-> FALSE, range2 |-> None, to |-> 0]
  /\ adc = [core |-> "boot", on |-> "on", input |-> "own", mode |-> "burst",
            trg1 |-> "software", trg2 |-> "b2b", irqsel |-> 0, irq |-> FALSE,
            step |-> FALSE, rptcnt |-> FALSE]
  /\ sccp = [one |-> FALSE, two |-> FALSE, count |-> FALSE]
  /\ uref = FALSE
  /\ cap = [run |-> FALSE, armed |-> FALSE, chain |-> FALSE, powered |-> TRUE,
            half |-> MaxHalf, was |-> FALSE, busy |-> FALSE]
  /\ table \in Tables
  /\ gen = 0 /\ claim = 0 /\ route = "none" /\ stream = FALSE /\ ok = TRUE /\ asked = {}

----------------------------------------------------------------------------
(* capture.c: the calls every set-up is made of.                           *)
Cap(f) ==
  /\ Now(f) /\ Done
  /\ cap' = [cap EXCEPT ![f] = Arg]
  /\ UNCHANGED <<dac, clk, dma, adc, sccp, uref, table, soft>>

\* The defined idle state: trigger first, then the burst - one that never
\* ends takes the core down and up -, then the DMA channel.
capture_settle ==
  /\ Now("settle")
  /\ cap' = [cap EXCEPT !.was = cap.run, !.run = FALSE, !.chain = FALSE, !.busy = FALSE]
  /\ \E hangs \in {cap.busy, FALSE} :
       Instead((IF cap.chain THEN <<Do("sccp1_stop")>> ELSE <<>>)
               \o (IF hangs /\ cap.powered THEN <<Do("adc_deinit"), Do("adc_reinit")>> ELSE <<>>)
               \o dma0_deinit \o <<Call("armed", FALSE)>>)
  /\ UNCHANGED <<dac, clk, dma, adc, sccp, uref, table, soft>>

capture_init ==
  /\ Now("capture_init")
  /\ Instead((IF cap.chain THEN dma0_pp_init(cap.half) ELSE dma0_init(cap.half))
             \o <<Call("armed", TRUE)>>)
  /\ UNCHANGED <<board, table, soft>>

capture_select_core(core) ==
  <<Do("settle"), Do("core_down"), Call("adc_init", core), Do("capture_init"),
    Call("powered", TRUE)>>
core_down ==
  /\ Now("core_down")
  /\ Instead(<<IF cap.powered THEN Do("adc_deinit") ELSE Call("clock_adc_gate", "on")>>)
  /\ UNCHANGED <<board, table, soft>>

\* A burst starts and, until it is stopped, is restarted by the interrupt
\* (Burst.tla); here only that one may be in flight.
capture_start ==
  /\ Now("capture_start")
  /\ Instead((IF cap.armed THEN <<>> ELSE <<Do("capture_init")>>)
             \o <<Call("run", TRUE), Call("busy", TRUE)>>)
  /\ UNCHANGED <<board, table, soft>>
capture_stop == Call("run", FALSE)

\* Bursts the change interrupted are started again afterwards.
restart ==
  /\ Now("restart")
  /\ Instead(IF cap.was THEN <<Do("capture_start")>> ELSE <<>>)
  /\ UNCHANGED <<board, table, soft>>

capture_set_pll(p, els) ==
  <<Do("settle"), Do("adc_deinit"), Note("clock_adc_set_pll", p, els),
    Note("adc_reinit", 0, els), Do("restart")>>

\* The triggered stream: DMA, then ADC, then the trigger.
capture_chain_start(skip, els) ==
  <<Do("settle"), Call("chain", TRUE), Do("capture_init"), Call("run", TRUE),
    OrElse("sccp1_start", 0, skip, <<Do("settle")>> \o els)>>
capture_chain_stop == <<Do("sccp1_stop"), Do("settle")>>

\* The overrun brake, from inside the DMA's interrupt.
Brake ==
  /\ cap.run /\ dma.ch0 /\ dma.on
  /\ dma' = [dma EXCEPT !.ch0 = FALSE]
  /\ cap' = [cap EXCEPT !.run = FALSE, !.armed = FALSE, !.busy = FALSE]
  /\ UNCHANGED <<todo, slips, dac, clk, adc, sccp, uref, table, soft>>

----------------------------------------------------------------------------
(* acquisition.c: bringing the chain up and putting the boot set-up back.  *)
NotOk == <<Call("ok", FALSE)>>

\* MUTANT: the mode is set before the core is selected, and lost with it.
SetupModeFirst(core, signal, half) ==
  <<Call("ok", TRUE), Do("settle"), Do("sccp1_stop"), Call("half", half)>>
  \o capture_set_pll("chain", NotOk)
  \o <<Note("clock_trig_on", "on", NotOk), Call("adc_set_mode_single", "sccp1"),
       Call("adc_set_irqsel", 0)>>
  \o capture_select_core(core) \o <<Do("settle")>>

acq_chain_setup(core, signal, half) ==
  LET rest == capture_select_core(core)
              \o <<Call("adc_set_mode_single", "sccp1"), Call("adc_set_irqsel", 0), Do("settle")>>
      test == IF signal THEN dac_start(2, "level", 1, NotOk) ELSE <<>>
  IN  <<Call("ok", TRUE), Do("settle"), Do("sccp1_stop"), Call("half", half)>>
      \o capture_set_pll("chain", NotOk)
      \o <<Note("clock_trig_on", "on", NotOk), Call("clock_dac_select", "pll1")>>
      \o test \o rest

\* MUTANT: an overclocked chain PLL is left to the boot core.
RestoreWithoutPll ==
  <<Do("settle"), Do("sccp1_stop"), Call("sccp1_count", FALSE), Call("adc_ch0_irq", FALSE),
    Call("step_on", FALSE), Do("restore_dac2"), Call("clock_dac_select", "pll1")>>
  \o capture_select_core("boot")

acq_chain_restore ==
  <<Do("settle"), Do("sccp1_stop"), Call("sccp1_count", FALSE), Call("adc_ch0_irq", FALSE),
    Call("step_on", FALSE), Do("restore_dac2"), Call("clock_dac_select", "pll1")>>
  \o capture_select_core("boot") \o capture_set_pll("board", <<>>)

\* MUTANT: the stream's DAC goes off whoever plays on it.
RestoreDacAlways ==
  /\ Now("restore_dac2") /\ Instead(dac_off(2))
  /\ asked' = asked \ {2}
  /\ UNCHANGED <<board, table, gen, claim, route, stream, ok>>

\* DAC2 goes off - unless the signal generator plays on it.
restore_dac2 ==
  /\ Now("restore_dac2")
  /\ Instead(IF gen # 2 THEN dac_off(2) ELSE <<>>)
  /\ asked' = IF gen # 2 THEN asked \ {2} ELSE asked
  /\ UNCHANGED <<board, table, gen, claim, route, stream, ok>>

Soft(f, var, new) == Now(f) /\ Done /\ var' = new /\ UNCHANGED <<board, table>>
set_ok     == Soft("ok", ok, Arg) /\ UNCHANGED <<gen, claim, route, stream, asked>>
set_route  == Soft("route", route, Arg) /\ UNCHANGED <<gen, claim, stream, ok, asked>>
set_stream == Soft("stream", stream, Arg) /\ UNCHANGED <<gen, claim, route, ok, asked>>
set_gen    == Soft("gen", gen, Arg) /\ UNCHANGED <<claim, route, stream, ok, asked>>
set_claim  == Soft("claim", claim, Arg) /\ UNCHANGED <<gen, route, stream, ok, asked>>
ask        == Soft("ask", asked, asked \cup {Arg}) /\ UNCHANGED <<gen, claim, route, stream, ok>>
unask      == Soft("unask", asked, asked \ {Arg}) /\ UNCHANGED <<gen, claim, route, stream, ok>>

\* routing_apply() after the set-up: recorded, or the boot set-up again.
route_applied ==
  /\ Now("route_applied")
  /\ IF ok THEN Done /\ route' = Arg
           ELSE Leave(acq_chain_restore) /\ UNCHANGED route
  /\ UNCHANGED <<board, table, gen, claim, stream, ok, asked>>

chain_stream_off ==
  /\ Now("stream_off")
  /\ Instead(IF stream THEN capture_chain_stop \o acq_chain_restore
                            \o <<Call("route", "none"), Call("stream", FALSE)>>
                       ELSE <<>>)
  /\ UNCHANGED <<board, table, soft>>

\* stream_on_route() once the old stream is down: the table refuses the
\* test signal while the generator holds DAC2.
stream_on_route ==
  /\ Now("stream_on_route")
  /\ LET signal == Arg = "signal"
         start  == capture_chain_start(Everything, acq_chain_restore \o <<Call("route", "none")>>)
                   \o <<Call("stream", TRUE)>>
     IN  IF signal /\ claim = 2
         THEN Leave(<<>>)
         ELSE Instead(acq_chain_setup(IF signal THEN "chain" ELSE "input", signal, cap.half)
                      \o <<Call("route_applied", Arg)>>
                      \o (IF signal THEN dac_triangle_start(2, start) ELSE <<>>) \o start)
  /\ UNCHANGED <<board, table, soft>>

----------------------------------------------------------------------------
(* siggen.c.                                                               *)
siggen_stop ==
  /\ Now("siggen_stop")
  /\ Instead(IF gen # 0 /\ Arg \in {0, gen}
             THEN <<Do("sccp2_stop")>> \o dma_tx_stop \o dac_off(gen)
                  \o <<Call("claim", 0), Call("gen", 0)>>
             ELSE <<>>)
  /\ UNCHANGED <<board, table, soft>>
siggen_release_dac(u) == <<Call("siggen_stop", u)>>

\* MUTANT: a timer that did not start takes the output down, not the DMA.
StartHalfUndone ==
  /\ Now("siggen_start")
  /\ LET u == Arg[1]
     IN  IF route = "signal" /\ u = 2
         THEN Leave(<<>>)
         ELSE Instead(dac_level_start(u, <<>>) \o <<Call("unask", u)>>
                      \o dma_tx_start(u, Arg[2], dac_off(u))
                      \o <<Try("sccp2_start", 0, <<Do("sccp2_stop")>> \o dac_off(u)),
                           Call("claim", u), Call("gen", u)>>)
  /\ UNCHANGED <<board, table, soft>>

\* After the checks: level, transport, pace - each one undone by the next
\* one's failure -, then the claim.
siggen_start ==
  /\ Now("siggen_start")
  /\ LET u    == Arg[1]
         pace == <<Do("sccp2_stop")>> \o dma_tx_stop \o dac_off(u)
     IN  IF route = "signal" /\ u = 2
         THEN Leave(<<>>)
         ELSE Instead(dac_level_start(u, <<>>) \o <<Call("unask", u)>>
                      \o dma_tx_start(u, Arg[2], dac_off(u))
                      \o <<Try("sccp2_start", 0, pace), Call("claim", u), Call("gen", u)>>)
  /\ UNCHANGED <<board, table, soft>>

----------------------------------------------------------------------------
(* The console.                                                            *)
Type(p) == Begin(p) /\ UNCHANGED <<board, table, soft>>

DacOn      == \E u \in Units : Type(siggen_release_dac(u) \o dac_triangle_start(u, <<>>)
                                    \o <<Call("ask", u)>>)
DacOff     == \E u \in Units : Type(siggen_release_dac(u) \o dac_off(u) \o <<Call("unask", u)>>)
SiggenOn   == \E u \in Units, n \in Lengths :
                Type(<<Do("siggen_stop"), Call("siggen_start", <<u, n>>)>>)
SiggenOff  == Type(<<Do("siggen_stop")>>)
\* "stream on <ksps>" is refused before anything is touched while the
\* generator plays on DAC2.
StreamOn   == gen # 2 /\ Type(<<Do("stream_off"), Call("stream_on_route", "signal")>>)
StreamOnInput == Type(<<Do("stream_off"), Call("stream_on_route", "input")>>)
StreamOff  == Type(<<Do("stream_off")>>)
\* A grab that finds the stream stopped by the brake takes it down.
StreamGrab == stream /\ ~(cap.chain /\ cap.run) /\ Type(<<Do("stream_off")>>)
Buf        == ~cap.run /\ \E h \in Halves \ {cap.half} : Type(<<Do("settle"), Call("half", h)>>)

Command == DacOn \/ DacOff \/ SiggenOn \/ SiggenOff \/ StreamOn \/ StreamOnInput
           \/ StreamOff \/ StreamGrab \/ Buf

SessionCall ==
  \/ (\E f \in {"armed", "chain", "run", "busy", "powered", "half"} : Cap(f))
  \/ capture_settle \/ capture_init \/ core_down \/ capture_start \/ restart
  \/ restore_dac2 \/ set_ok \/ set_route \/ set_stream \/ set_gen \/ set_claim \/ ask \/ unask
  \/ route_applied \/ chain_stream_off \/ stream_on_route
  \/ siggen_stop \/ siggen_start

SessionNext == Command \/ SessionCall \/ (DriverCall /\ UNCHANGED soft) \/ Brake
SessionSpec == SessionInit /\ [][SessionNext]_vars

----------------------------------------------------------------------------
\* Every DMA channel that is on moves data inside the one address window,
\* whichever of the stream and the generator came, changed length or went
\* last (dma.c, window_write(): outside it the channel stops on ADRERR).
Within(r, w) == w[1] <= r[1] /\ r[2] <= w[2]
WindowCovers ==
  dma.on => /\ dma.ch0 => Within(dma.range0, dma.window)
            /\ dma.ch2 => Within(dma.range2, dma.window)

\* While channel 2 and SCCP2 play a table, the DAC they write is in level
\* mode and nobody has turned its clock or the DMA module off: no "dac",
\* "stream" or restore takes the output from under a running generator.
DrivenDacStill ==
  sccp.two /\ dma.ch2 => dac[dma.to] = "level" /\ clk.dac # "off" /\ dma.on

\* Between two commands the generator is all there or not at all, however
\* far its last start came: timer, DMA channel, output and the claim in the
\* route table agree with s_on (siggen.c, the unwinding in siggen_start()).
GeneratorWhole ==
  Rest => IF gen # 0
          THEN /\ sccp.two /\ dma.on /\ dma.ch2 /\ dma.to = gen
               /\ dac[gen] = "level" /\ claim = gen
          ELSE ~sccp.two /\ ~dma.ch2 /\ claim = 0

\* Between two commands without a stream the board is back in the set-up
\* main() left it in, whatever the stream did before and however its start
\* failed: core, mode, interrupt, trigger timer, DMA channel, PLL - and no
\* DAC runs that neither the generator nor the user wants
\* (acquisition.c, acq_chain_restore()).
BootSetup ==
  /\ adc.core = "boot" /\ adc.mode = "burst" /\ adc.trg1 = "software" /\ adc.irqsel = 0
  /\ ~adc.irq /\ ~adc.step /\ adc.input = "own" /\ ~sccp.one /\ ~sccp.count /\ ~uref
  /\ clk.pll \in {"board", "failed"} /\ clk.src = "pll1"
AtBootSetup ==
  Rest /\ ~stream =>
    /\ BootSetup /\ ~dma.pair /\ ~cap.chain /\ (cap.run => cap.busy) /\ route = "none"
    /\ \A u \in Units : dac[u] # "off" => u = gen \/ u \in asked
    /\ clk.dac = "on" => AnyRunning

\* A standing stream between two commands converts its route's input once
\* per trigger on the chain's clocks into the two pairs - unless the brake
\* has stopped it, and then the DMA channels are off (acquisition.c).
StreamAsSetUp ==
  Rest /\ stream =>
    /\ route # "none" /\ adc.core = (IF route = "signal" THEN "chain" ELSE "input")
    /\ adc.mode = "single" /\ adc.trg1 = "sccp1" /\ adc.irqsel = 0 /\ adc.on = "on"
    /\ clk.pll = "chain" /\ clk.trig = "on"
    /\ IF cap.run THEN cap.chain /\ sccp.one /\ dma.on /\ dma.ch0 /\ dma.pair ELSE ~dma.ch0
=============================================================================
