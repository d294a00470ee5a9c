# TLA+ models of the dsPIC33A high-speed ADC example

The firmware under `src/` streams an ADC through hardware DMA ping-pong into two
pairs of buffer halves at up to 40 MSPS, processes every half in the main loop and
hands whole pairs to a GUI over a UART, without stopping the stream.  Beside it live
an older back-to-back burst mode, a signal generator, a route table, a command line
and a set of laboratory commands that measure the board with itself.  All of it is
bare metal: a main loop, four interrupt levels, three DMA channels, no operating
system.  What makes it hard to test is the *order* of those; that is what is modelled
here.

Paths below are relative to the repository's root; `capture.c` means
`src/core/capture.c`, and so on.  `PROJECT.json` has, for every definition, the lines
it models; for every property, a mutation of the code that breaks it; and the list of
hazards with the properties that watch them.

## 1. The system

### Contexts

| context | priority | runs |
|---|---|---|
| main loop (`example_main.c:97-100`) | 0 | `capture_service()`, `console_rx_resume()`, for ever |
| UART receive interrupt | 1 | `uart_rx_hook()`, and inside it every console command |
| UART transmit interrupt | 2 | ring to FIFO |
| ADC/SCCP interrupts | 3 | counters of the laboratory commands |
| DMA interrupts, channels 0 and 1 | 4 | `pp_service()` -> `dma0_event()` |
| trap, clock failure, `fail()` | above | a report by polling; never returns |

A context runs until it is done before a lower one goes on.  A console command is
therefore an interrupt routine of the main loop, and it waits - for the stream, for a
burst, for room in the transmit ring - inside that interrupt.

### Components

| component | state | operations | made of | what makes it correct |
|---|---|---|---|---|
| triggered stream, pairs | `pair_base/req/moving/frozen`, `ready_off`, `blocks_done`, the channels' `DMAxDST` | start, stop, the DMA event, the pair move, the service | `capture.c`, `pingpong.c`, `dma.c` | a pair being sent stands still; the service sees every half, in order |
| back-to-back bursts | `burst_active`, `run_enabled`, `dma_armed`, `bursts_left`, `switch_pending` | start, stop, settle, input, one-shot, rate, self-test; the DONE interrupt starts the next burst | `capture.c`, `meter.c`, `dma.c` | no second burst on top of one; no DONE lost; every wait ends |
| counters, grab report | `dma_overrun`, `late_service`, `proc_missed`, `done_events`, `g_grab_*0` | read, take as a baseline, clear | `acquisition.c`, `capture.c` | every event is told once |
| stream session | `s_on`, `acq_setup_ok` | `chain_stream_on/off/grab_begin/grab_end/state`, set-up and restore | `acquisition.c`, `gui_link.c` | a grab ends; nothing is left half configured |
| console transmit | `tx_ring`, `tx_head/tail`, `tx_irq_on` | write, flush, suspend, resume, polled | `uart.c` | order; every byte leaves; a measurement is quiet |
| console receive | `rx_held`, `rx_held_n`, `sigproc_busy` | receive interrupt, resume | `uart.c`, `cli.c` | order; no command inside the service |
| command parser | line, cursor, history pool, escape state | one byte after the other | `cmd_parser.c` | the screen shows what Enter submits; the history holds the latest lines |
| signal processing | filter state, Goertzel, impact counter, `sp_fresh`, `sp_last_seq` | block, set filter, thresholds, reset | `sigproc.c`, `impact.c`, `capture.c` | state carried only from block to next block; impacts counted once |
| routing | table of routes, the generator's claim | add, apply, clear, claim, release | `routing.c` | one owner per core and DAC; the limits hold over every order |
| signal generator | table, DAC, SCCP2, channel 2 | start with rollback, stop, release | `siggen.c`, `dac.c`, `dma.c` | a failed start leaves nothing behind; one owner per DAC |
| DMA window, DACs, ADC core | `win0_*`, `win2_*`, `state[]`, registers | start and stop of either user | `dma.c`, `dac.c`, `adc.c`, `sccp.c` | the window covers who runs; a driven DAC stays driven |
| clock | PLL1's dividers, CLKGEN6/7/13 | rate, pll, clk, stream; the failure | `clock.c` | the rate told is the rate set, and the nearest |
| diagnostics, start-up | `boot_stage`, `trap_*`, `chain_mark` (survive a reset) | main() from reset to the loop, trap, fail, clock failure | `main.c`, `diag.c`, `port_impl.c` | the report is about the last run, once |
| laboratory commands | `s4_ok..`, `g_best`, variant, divider | chain test, sweep, matrix, snap, dactest, ... | `src/lab` | every figure measured under the set-up its heading names |
| numeric library | none | CRC, detector, Goertzel, formats | `src/lib` | against references (host tests) |

### Interactions

- DMA interrupt -> service: `blocks_done` and `ready_off`, two words, written in one
  interrupt and read apart by `service_once()`.
- Command -> DMA interrupt: `pair_req`; back: `pair_frozen`.  Between the two stand
  two DMA events, one for each channel.  In burst mode: `run_enabled`,
  `switch_pending`, `burst_abort`; back: `burst_active`.
- Main loop -> receive interrupt: `sigproc_busy` (hold back); back: `rx_held`.
- Writers -> transmit interrupt: the ring and the enable bit `U2TXIE`.
- Stream <-> signal generator: DAC2 (the stream's test triangle, the generator's
  output), DAC clock, the DMA address window, the route table's limits.
- Command -> everything: `counters_clear()`, `capture_settle()`.
- Run -> next run: the persistent record.

### What is hard

The hazards, with the line where each bites, are listed in `PROJECT.json`
("hazards"), with the properties that cover them.  In short: a request between two
DMA events; two readings of a moving stream; a time limit racing the move; the brake
in the middle of a grab; an interrupt a half late; a `clear` or a new stream between
two grabs; a command inside the service; `start` and `stop` against the DONE
interrupt; an enable bit that two contexts write; a change from interrupt to polled
mode with bytes on the way; a trap between two writes; a set-up of ten calls of which
the sixth fails; two users of one DAC and one window; some forty set-ups of a test
suite, one of which leaves something behind; a reset while a report is written.

## 2. Modules

| module | models | composed by |
|---|---|---|
| `PairStream` | the stream, the DMA event, the service, stream on/off, grab, `sigproc`, `clear` | `MCPairStream` |
| `SnapshotStream` | what a grab promises, without buffers (abstract) | refined by `PairStream` |
| `PairStreamInv` | the inductive invariant behind `PairStill` | |
| `GrabReport` | the counters a grab reports, read word by word | `MCParts`; alone `MCGrabReport` |
| `Burst` | the back-to-back bursts, their interrupt, the commands between its steps | `MCBurst` |
| `UartTx`, `ConsoleRx` | the console's two directions | `MCConsole` |
| `Calls` | straight-line C as data: what is left of a command, which call fails | `Board`, `Burst` |
| `Board` | the peripherals and the driver calls that write them | `Session` |
| `Session` | the core's commands over `Board`: stream, generator, DAC, buffer | `Lab` |
| `Lab` | the laboratory commands over `Session` | `MCLab` |
| `Routing`, `Clock`, `Boot`, `CmdParser`, `SigProc` | the parts that share no state with the stream | `MCParts` |
| `*_proofs` | the theorems (section 4) | |

### PairStream

*Hardware.*  Channel 0 writes ping halves, channel 1 pong halves (`dma.c:331-405`).
`HwHalf` completes a half: the channel's DONE flag, its interrupt, the other channel
goes on where its `DMAxDST` points (`dst`).  The four slots 0-3 are A.ping, A.pong,
B.ping, B.pong; `half_len` is 1, so `pair_base` is 0 or 2.  `stamp[s]` is the number
of the half whose samples slot `s` holds or is receiving; moving the `DMAxDST` of a
channel that runs spoils both slots (`Torn`; "a running one's cannot",
`capture.c:208-209`).  `Overrun` raises OVERRUN; the brake after `OverrunLimit` of
them is the code's 500 000.

*The DMA event* (`DmaIsr`) is one step: its run time is far below a half period, it
takes and clears both status words at once (`dma.c:306-315`), and it runs above
everything it shares state with.  `Late`, `Ready`, `Turn` and `Booked` are the parts
of `dma0_event()` in their order.

*The service* is split where an interrupt can matter: the switch (`ServiceEnter`),
the flag and `blocks_done` (`ServiceLook`), the bookmark (`ServiceBook`),
`ready_off` (`ServiceRead`), the processing (`ServiceProcess`).  It runs in two
contexts: the main loop, and a grab that waits or sends.  A grab runs above the main
loop, which stands still meanwhile (`Runs`).

*Commands* start when none runs and the service does not hold them back (`Typed`).
`stream off` and `stream on` are taken apart into their steps (`OffTrigger` ..
`OffDma`, `StreamOn`), because DMA events land between them; `StreamOn` from
`counters_clear()` to the trigger is one step since the DMA is down.  A grab is
`GrabBegin`, `Freeze` (`pair_frozen = PAIR_NONE`), `Ask` (`pair_req = true`), the
loop of `capture_pair_freeze()` (`Check`, the service, `InTime`/`TimedOut`), a last
service, the frame - half by half, with a service in between (`grab_poll()`) - and
`GrabEnd`.  Time is `elapsed`, in half periods since the request; the limit of four
may hold one completion more or less, so `TimedOut` is possible from `WaitHalves` on
and certain two later.

*Left out:* a refused command (a stutter), the guard words, the heartbeat, the wording
of the header, the chunks of 64 bytes.  The route and clock set-up is `Session`'s; here
it only may refuse (`OnRefused`).  The frame's abort by Ctrl+C is the shorter frame
that `Resume` may leave.

### SnapshotStream

The promise without buffers: the taker asks, and after two or three completions gets
the two halves completed last; it hands out those two and nothing else until it lets
go.  `PairStream!GrabIsSnapshot` is the refinement: `booked <- blocks_done`, the pair
held is read out of the frozen slots at every step, so a slot overwritten while the
grab holds it is a step `SnapshotStream` does not have.

### GrabReport

Takes over where `PairStream` stops: transfers are counted one by one (`HwTransfer`,
`cnt` is `DMAxCNT`), and the command reads one word per step, in the code's order
(`After`: `dma_overrun`, `late_service`, `proc_missed`, `blocks_done`, then which
channel runs, its count, `done_events`).  The interrupt preempts: no step of a command
happens with an event pending.  `happened` and `reported` are the model's own account of
what was counted and what the grabs told since the last "stream on".  A "clear"
zeroes the counters under a grab's baselines, so `EachEventToldOnce` is about a stream
in which none was typed (`cleared`).  The wait for the move is arbitrary here.

### Burst

`conv` is the number of conversions the ADC's burst has still to make, `hung` one that
never ends, `fill` the transfers made in the DMA channel's block; `stat`, `dmaIf` and
`chen` are DMA0STAT, its interrupt request and the channel's enable.  A conversion
(`Convert`) is moved by the channel when it is on, which flags the middle and the end of
*its* block - not necessarily of the burst: a channel armed over a burst in flight starts
counting there.  The interrupt is taken
apart at every access that the hardware can come between: `IsrRead` takes the snapshot
and clears, then OVERRUN, HALF and DONE are acted on, then the next burst starts
(`IsrAfterDone`).  A command is the list of its calls (`todo`, from `Calls`), and the
interrupt comes between any two.  `capture_settle()` waits with a bound, aborts, and
takes the core down (`SettleWait`, `SettleAbort`, `SettleDown`); `StartArm`,
`StartEnable` and `StartBurst` are `capture_start()`'s three steps.  The overrun brake
(`Brake`) switches the channel off and forgets the burst, but leaves the ADC converting,
as the code does; nobody hears the rest.  The history variable `cut` says that the code
has lost track of a burst so: by the brake, by an abort, by a start with the channel off,
or because the channel was armed over one in flight (this alone is `stray`); arming it
with the ADC idle ends it.
What one trigger does to a burst in flight the code does not say: `adc_start_burst` leaves
open whether it is lost or begins the burst anew.

### UartTx, ConsoleRx

A byte is its number in the order of writing, modulo `N`.  The contexts and their
priorities are explicit (`Runs`).  `tx_move()` is a loop of `MoveByte` and an end that
writes `tx_tail`.  A locked copy (`tx_lock()`) is one step.  The hardware raises the
flag on *reaching* empty (`uart.c:146-156`).  The wait limits never expire, because
the transmitter works.  A failure is either `fail()` from code that runs ("fail") or a
trap from anywhere ("trap").

The receive interrupt takes bytes until the FIFO is empty; `uart_rx_hook()` parses or
holds back; a parsed byte may end a line and run a command on the spot.
`console_rx_resume()` is taken apart into the look, the mask, one byte after the other,
and the restore.  A command is reduced to what it does to this state: it may switch
the processing and drop what is typed while it prints (`console_yield()`).  `passed`
collects the bytes dropped on purpose.

### Calls, Board, Session, Lab

The set-ups of this firmware are long straight lines of driver calls, any of which may
fail, and the failure paths differ in how much of the rest they skip.  `Calls` holds a
command as the sequence of its calls still to make; `OrElse(f, x, skip, els)` is a call
that may fail, on which the next `skip` calls are left out and `els` is done instead.
An action takes the call at the head; so between any two calls something else may
happen - here the overrun brake.  `MaxSlips` bounds the failures of one command.

`Board` has one action per driver call that writes a register: the DACs and the clock
they share, SCCP1 and SCCP2, channels 0/1 and 2 with the one address window, the ADC
core with its mode, triggers and input, the clock generators.  `Session` writes the
commands as such sequences: `acq_chain_setup()` and `acq_chain_restore()`,
`chain_stream_on/off()`, `routing_apply()`, `siggen_start()` with its rollback,
`siggen_stop()`, `dac ... on/off`, `buf`.  `Lab` adds what `src/lab` does with the
board: the chain test's stages with the tables they leave (`s4_ok` .. `g_best`), and
the suite of the back-to-back chain - the ten variants, `sweep`, `matrix`, `snap`,
`dactest`, `clk`.  What is measured is data; under which set-up it is measured is kept:
every measurement is a call `measure` whose argument is what the command *claims*, and
`MeasuredAsClaimed` compares it with the registers.

### Routing, Clock, Boot, CmdParser, SigProc

`Routing` is the table of `routing.c` with the limits of the two packages, the
generator's claim beside it.  `Clock` does the arithmetic of `clock_adc_set_rate()`,
`set_pll()` and `set_div()` in kHz.  `Boot` is `main()` from reset to the loop, step by
step (`Startup`), with resets, traps, `fail()` and the clock failure anywhere, over the
words of persistent RAM; after a power-up they hold anything.  A trap handler's three
stores are three steps (`Trap`, `TrapVec`, `TrapStage`) with resets and further traps
between them; `written` says how far the last one got.  `CmdParser` is the line
editor with the terminal its echo is printed on.  `SigProc` is the filter and the
impact counter over the blocks the service hands on: a filter's state is the block it
was left at, the counter's rule is computed over magnitudes.

## 3. Runs

All on two workers; each passing run finishes in at most about three minutes.

| run | asks | bounds |
|---|---|---|
| `grab` | does a grab get the pair completed last, still and whole, in time, whatever order events come in? Is the invariant of the proof right? | `W=5`, `MaxLag=1`, limit 4 half periods, brake at 2 overruns; `on`, `off`, `grab` |
| `processing` | is a pair sent processed whole or not at all; does `gap` tell the truth? | `W=4`, `MaxLag=1`; `on`, `grab`, `sigproc`, `clear` |
| `late` | the DMA interrupt up to two halves late and the main loop up to two behind: is a spoilt frame ever silent; is a block the half its number says? | `W=5`, `MaxLag=2`, `MaxLate=1`, brake at 1; `on`, `grab` |
| `burst` | no burst on another, no DONE lost, no input change left over, a one-shot whole; does every command come back? | one conversion per half, two inputs, one-shots of two bursts, brake at 2 |
| `console` | order, no lost wake-up, quiet measurements; hold-back and order; every byte leaves | ring of 3 (2 usable), FIFO of 2, numbers modulo 5, `fail()`; receive FIFO 2, hold buffer 3, seven bytes |
| `lab` | what the commands leave of the board, with one call failing anywhere; what is measured under which set-up | one failing call per command; two half lengths, table below or above the buffer; chain test over three spans and two rates, two laboratory commands |
| `parts` | routing, clock, boot, parser, signal processing; every event told once, the transfer count | see below |
| `first`, `matrix`, `pll`, `early`, `brake` | violations, section 5 | |

*Why the bounds are enough.*  The pair move takes at most three completions and the
stream has four slots: `W=5` tells a half from every other one that can be in the
buffer or be asked about, and it wraps many times, since behaviours are not bounded in
length (`W=4` where the properties are about neighbours).  `MaxLag` bounds completions
not yet served; in time it is one by definition, and at two the interrupt finds both
flags set, the case `late_service` exists for; a third would only be one more half
overwritten.  `MaxLate` stops the converter at that many late interrupts of a stream: no guard
of the code reads `late_service`, and after the first one neither property of `late` says
anything more (the theorem on `LateOrWhole` holds for every `MaxLate` below `W`).  A ring of
three with a FIFO of two has all of empty, full,
wrapped, ring-fuller-than-FIFO and FIFO-fuller-than-ring.  A hold buffer of three and seven
bytes fill it, overflow it, and have bytes waiting in the FIFO behind it.  Two inputs and
bursts of two are the fewest of which one can be mixed up with the other; brake at two: once
without, once with effect; `BlockCap` is one half more than the longest one-shot's, and what
`blocks` is when no command set a target.  One conversion per half (`Half = 1`) puts an
interrupt between any two conversions of a burst; a channel armed over a burst then starts
at one of its halves, never inside a half - the theorems hold for every length.
One failing call per command (`MaxSlips = 1`): the code's error paths are
taken from every call that has one; a second failure on top of a first is left out.
Two commands of a laboratory group (`MaxTyped = 2`) are enough for what one leaves for
the next; the core's commands are not bounded.  In `parts`: the package MPS506, whose
pins differ per core, with limits (4 channels, 3 timers, 2 pins, 1 reference line, 13
units of RAM) small enough for the nine paths to reach them; twenty rates over the
whole range, on and off the grid; traps up to two and any
number of resets; lines of two characters, a pool of five bytes and two entries, three
lines submitted: each of "pool full", "depth full" and "line longer than what it
replaces" happens; five halves, three settings, magnitudes below, between and above two
thresholds.  For the grab's report: halves of two transfers, which separates "in a half"
from "at its end"; three halves, enough for a late interrupt, a missed half and a DONE of each
channel beside a running half; brake at two; the commands `on`, `off`, `grab`, `stream`, `clear`.

*Assumptions that are constants.*  `TimelyIsr`: the DMA interrupt runs before the next
half completes (25.6 us at 40 MSPS; the code counts the opposite as `late_service`).
`TimelyService`: the main loop has read a half before the next one completes - the rule
of `sigproc.h:48-53`; the code counts the opposite as `missed`.  `SeqExact` does without it;
`GapSound` and `PairProcessed` need it (section 5 says what happens to the first when it
fails).  `Lossy`: overruns may
lose transfers so that a half takes longer than its period.  The theorems say which
they need.

*Fairness.*  Weak fairness of the hardware (a stream that runs completes halves, the
transmitter shifts, a burst that does not hang goes on), of the interrupts (taken when
pending), and of the running context and the main loop (they go on).  Nobody need type
a command, overruns need not happen.  Strong fairness where a context gets the CPU
again and again but not continuously: a command between DMA interrupts (`BurstCall`),
and where a command's own loop is left out: a measuring command ends (`QuietResume`), a
command run by the receive side ends (`IsrCommandEnds`, `MainCommandEnds`).  The code
justifies these: every loop in a command is bounded by a count, a time or its
arguments; and the priorities are fixed, so a context that is due runs once those above
are done.  `CommandEnds` excepts halves that complete while their own handler still
runs (`Swamped`): those do keep the CPU.

Deadlock is checked in every run but `lab`, `matrix`, `parts`, `pll` and `early`: a
command sequence, a boot that stopped in `fail()` and a bounded number of commands do
come to an end.

### What the properties say

| property | why it is not obvious |
|---|---|
| `PairStill` | the request can land before, between or after the two events that carry the move out; a time-out, a brake or a "stream off" can leave the move half done |
| `GrabIsSnapshot` | two slots read at two times are the two halves completed last at one time |
| `NoFalseTimeout` | a request just after a ping completion needs three completions; four is enough, three is not |
| `GrabEnds` | the stream can die while the grab waits in an interrupt routine |
| `EveryHalfServed` | over the wrap of `blocks_done` |
| `PairProcessed` | both halves of the pair have passed the service exactly once before the frame begins, in two contexts |
| `SeqExact` | a number and an offset are read apart, with any half booked before, between or after; they name the same half as long as no interrupt was late and the half after is still being filled |
| `GapSound` | what was handed on last, over restarts, clears and switches in any order |
| `LateOrWhole` | a spoilt frame is never silent |
| `EachEventToldOnce` | an event counted between two readings is in this grab or in the next |
| `TransfersWithinAPair`, `StopCountExact` | three readings of a moving stream; exact once the trigger is off |
| `NoClash` | `start`, a one-shot, a settle and the DONE interrupt may each start the next burst; excepted is a burst the code has lost (`cut`) |
| `EndIsSeen` | a read-modify-write of the status word would clear a flag raised in between |
| `SwitchCarriedOut` | an input asked for while a burst ends may be set by the interrupt or by the command, and must be by one |
| `OneshotWhole` | the interrupt counts down what the command is still setting up; the brake may come anywhere in it.  Excepted is a channel armed over a burst left from an earlier brake (`stray`): there it is false (`BufferStands`, run `brake`) |
| `CommandEnds` | each wait is for something an interrupt does that may never come |
| `InOrder` | over every change between interrupt, polled, flush and failure |
| `NoLostWakeup`, `NoByteStuck` | the enable bit is written by three contexts, the flag is an edge; held bytes wait for a main loop |
| `MeasuredInQuiet` | what suspending promises: while a command measures nothing is in the ring and no transmit interrupt comes, and the FIFO is empty when the polled mode begins, whoever wrote last |
| `CommandKeepsAll` | the look at the room and the copy are apart |
| `ParsedInOrder` | bytes from the interrupt and bytes held back meet at the parser, with another interrupt in between |
| `ServiceUndisturbed` | the premise of everything `PairStream` says about `Typed` |
| `WindowCovers` | two users start and stop in any order, the table may be on either side of the buffer, a set-up fails half way |
| `DrivenDacStill` | the stream's triangle, "dac on" and the generator share two units and one clock |
| `GeneratorWhole` | a failed start takes five things back, in order |
| `StreamAsSetUp`, `BootAfterChain` | what stands after a set-up or a restore with a failing step is the stream's or the boot's |
| `MeasuredAsClaimed` | some forty set-ups follow each other, each assuming the base of the one before |
| `ChosenRatePassed` | the recommended rate comes from three stages' flags of possibly different commands |
| `OneOwner`, `WithinLimits` | two parties fill one table, each checks against what the other has filled |
| `BestRate` | rounding over two ranges and two dividers; the search looks at one feedback divider per pair only |
| `LastRunTold` | a reset or a second trap between any two stores of the trap record or of the boot's; a record torn by a reset is told as far as it was written |
| `ScreenIsLine`, `HistoryLatest` | columns counted over any mixture of edits; eviction from a packed pool |
| `FilterContinues` | gap, restart, reset, another stream and another filter, in two modules that share one `seq` |
| `ImpactsExact` | an edge-triggered rule with hysteresis and a reset that must not count what rings |

Each has a mutant next to the definition it changes (marked `mutant` in the modules):
the change a plausible mistake would make, which TLC finds.

## 4. Proofs

TLC checks the instances of section 3; the theorems below hold for every value of the
constants that the named assumptions allow.  Each module's inductive invariant says more
than the property: what it adds is the argument.  The layout is the same throughout: one
lemma per action (under it a step per conjunct the action can disturb), one lemma that
puts `Next` together, and one temporal step.

| theorem | module | states | constants |
|---|---|---|---|
| `TypeCorrect` | `PairStream_proofs` | `TypeOK` | `ConstantsAssumption` |
| `Inductive` | `PairStream_proofs` | `IInv` | `ConstantsAssumption`, `Timely` |
| `PairStaysStill` | `PairStream_proofs` | `PairStill` | the same |
| `RunningNotRefused` | `PairStream_proofs` | `NoFalseTimeout` | the same |
| `GrabImplementsSnapshot` | `PairStream_proofs` | `GrabIsSnapshot` | the same |
| `LateIsTold` | `PairStream_proofs` | `LateOrWhole` | `ConstantsAssumption`, `Regular`, no "clear" |
| `ServiceSafety` | `PairStream_proofs` | `IInv`, `ServInv` | `ConstantsAssumption`, `Served` |
| `GapIsSound` | `PairStream_proofs` | `GapSound` | the same |
| `PairIsProcessed` | `PairStream_proofs` | `PairProcessed` | the same |
| `SeqIsExact` | `PairStream_proofs` | `SeqExact` | `ConstantsAssumption`, `Timely` |
| `ToldOnce` | `GrabReport_proofs` | `EachEventToldOnce` | `GrabReportAssumption` |
| `CountWithinAPair` | `GrabReport_proofs` | `TransfersWithinAPair` | `GrabReportAssumption` |
| `StopCounted` | `GrabReport_proofs` | `StopCountExact` | `GrabReportAssumption` |
| `FlightSafety` | `Burst_proofs` | `FlightSafe` | `BurstAssumption` |
| `NeverClashes` | `Burst_proofs` | `NoClash` | `BurstAssumption` |
| `EndIsNeverLost` | `Burst_proofs` | `EndIsSeen` | `BurstAssumption` |
| `SwitchNeverLeftOver` | `Burst_proofs` | `SwitchCarriedOut` | `BurstAssumption` |
| `OneshotIsWhole` | `Burst_proofs` | `OneshotWhole` | `BurstAssumption` |
| `SessionInvariant` | `Session_proofs` | `SessionInv` | `BoardAssumption` |
| `WindowAlwaysCovers` | `Session_proofs` | `WindowCovers` | `BoardAssumption` |
| `OutputStaysWithGenerator` | `Session_proofs` | `DrivenDacStill` | `BoardAssumption` |
| `GeneratorAllOrNothing` | `Session_proofs` | `GeneratorWhole` | `BoardAssumption` |
| `SessionOutline` | `Session_proofs` | `OutlineInv` | none |
| `StreamStandsAsSetUp` | `Session_proofs` | `StreamAsSetUp` | none |
| `RateHasPassed` | `Lab_proofs` | `ChosenRatePassed` | `LabAssumption` |
| `WakeupNeverLost` | `Console_proofs` | `NoLostWakeup` | `UartTxAssumption` |
| `MeasurementsAreQuiet` | `Console_proofs` | `MeasuredInQuiet` | `UartTxAssumption` |
| `RepliesAreWhole` | `Console_proofs` | `CommandKeepsAll` | `UartTxAssumption` |
| `OrderIsKept` | `Console_proofs` | `InOrder` | and `Failure # "trap"` |
| `NoCommandInService` | `Console_proofs` | `ServiceUndisturbed` | `ConsoleRxAssumption` |
| `AlwaysParsedInOrder` | `Console_proofs` | `ParsedInOrder` | `ConsoleRxAssumption` |
| `OwnersNeverClash` | `Parts_proofs` | `OneOwner` | `RoutingLimits`, `RoutingInputs` |
| `NothingPromisedTwice` | `Parts_proofs` | `WithinLimits` | `RoutingLimits`, `RoutingInputs` |
| `StateIsContinuous` | `Parts_proofs` | `Continuity` | `SigProcAssumption` |
| `FilterAlwaysContinues` | `Parts_proofs` | `FilterContinues` | `SigProcAssumption` |
| `ImpactsCounted` | `Parts_proofs` | `ImpactsExact` | `SigProcAssumption` |
| `NextBootTells` | `Parts_proofs` | `LastRunTold` | none |
| `RateIsBest` | `Parts_proofs` | `BestRate` | `RatesAssumption` |
| `LineAlwaysShown` | `CmdParser_proofs` | `ScreenIsLine` | `ParserAssumption` |
| `HistoryKeepsLatest` | `CmdParser_proofs` | `HistoryLatest` | `ParserAssumption` |

**PairStream.**  `TypeOK` is not inductive alone; `NeedInv` adds what the types rest on
(the brake bounds `overrun_run`; what a service has read before it books; a pair to send
whenever one is sent).

**PairStill** is proved under

    Regular == ~Lossy /\ WaitHalves >= 4
    Timely  == TimelyIsr /\ Regular

Neither the main loop's lateness (`TimelyService`) nor `W`, `MaxLag`, `OverrunLimit` or
the set of commands is assumed: a pair stands still under any overload of the main loop.
The argument (`PairStreamInv`): at most one half awaits its booking, and it is the
channel's that does not run (`BookingInv`).  Both channels are directed into the pair in
use, except between the two steps of a move, when channel 0 is ahead (`TargetInv`); in
that window channel 1 runs, or has just completed - so channel 0's destination was changed
while it waited.  Hence the half in flight is where it should be and the pair in use holds
what it should (`ContentInv`), and the pair is whole when `Turn` freezes it.  From then on
nothing asks for a move and both channels are in the other pair (`HeldInv`), until
`GrabEnd`.  For the time limit, `WaitInv` ties how many half periods have gone by to where
the stream is in its cycle: at most three.  `LiveInv` says a stream that calls itself
running has its channels armed.

The refinement needs the numbers as well (`CountInv`): the half in flight is one past
`blocks_done`, two while a completion awaits its booking; so the pair about to turn holds
the two halves booked last, modulo `W`; and a grab that waits has seen none to two halves
booked since it asked, depending on where the move stands.  Then every action maps to one
of `SnapshotStream`'s or to none: the booking that turns the pair takes it, `Send` hands
out a half, the rest change nothing the taker sees.

*A late interrupt.*  `LateIsTold` drops `TimelyIsr`: completions may wait for the interrupt
as long as `MaxLag` lets them.  Then `IInv` breaks - but only from the moment both channels
have completed (`Both`), and the booking of the two is what moves `late_service`.
`LateInv`: while it has not moved the pair a grab holds is safe (`HeldInv`), and outside
`Both` the stream is where `IInv` says.  `MaxLate < W` (section 3) keeps the count from going
round to 0; how late the interrupt is and how far the main loop is behind are free.
"clear" is excluded because it zeroes `late_service`, which is what tells.

**The service** (`ServInv`, the second half of `PairStream_proofs`) is proved under

    Served == Timely /\ TimelyService

that is, a half is read before the next one completes; `GapSound` is false without it (section
5).  `IInv` places the halves, `ServInv` adds the service's four facts.  `CallInv`: at most one
context is between the two writes of `sigproc_busy`, and it processes as the switch says now,
not as it said at another call. `HandInv`: while a half is *open* - booked and not yet handed
over - nothing completes, so `ready_off` still names it and it carries the number `blocks_done`.
`CarryInv`: what the processing remembers is the half it was given last, unless `sp_fresh` is
set.  `DoneInv` counts for each slot how often its half was processed: never while it fills or
waits for its booking, once afterwards (if the processing is on), except for the half that is
open; and a grab in its last service has no half of its pair open.

**A block and its number** (`LagInv`, the last section of `PairStream_proofs`).  `SeqIsExact`
asks nothing of the main loop: the interrupt may book halves before a call reads
`blocks_done`, between that and `ready_off`, and after.  `Spread(a, l)` puts the counts in a
row: the half in flight is a past `blocks_done`, which is l past the half looked at last, and
the number a call has read lies between the two.  At most `MaxLag` lie behind, less than the
counters' width, so that two places in the row are never the same number modulo `W`
(`PlusCancel`).  If then the half in flight is one past the number booked into
`seen_blocks`, nothing has come in between - l is 0 and a is 1 - and `ReadyInv` says that
`ready_off` is the slot of that half and no other.  The condition of `SeqExact` is needed: with
the half after that complete, `ready_off` names a newer one under the old number (section 5).
With `Timely` no interrupt is late, so that the property's other condition, `late_service = 0`,
is not needed in the proof (`SeqRight`).

**GrabReport** (`ReportInv`).  For each of the three counters: what was told, plus the
counter, minus the baseline, is what happened; and a reading not yet told lies between
the baseline and the counter, so that a difference never wraps.  The bounds on the
counters (`W > MaxHalves`, `W > OverrunLimit`) are what keeps them from going round within
a stream; the proof shows that nothing else is needed of them.

For the transfer count (`MoveInv`), `PlaceInv` ties the transfers made to the registers: the
pairs ended, counted or still flagged, and the position within the pair.  `CountInv` says what
a reading already taken bounds: the transfers made when the command began lie before the end
of the pair after those counted, and those made by now are no fewer than the pairs read.
Hence less than a pair either way.  `StopInv`: once the trigger is off nothing moves, and each
reading is what the register still holds.

**Burst** (`FlightSafe`).  The channel is on exactly when armed (`ChannelInv`); a burst in
flight has `burst_active` set and the channel has moved it from its first conversion on
(`FlightInv`: `fill` and `conv` add up to the burst) - as long as the code has lost no burst
(`cut`), since after the brake both are false; a DONE, be it in the status word, in the
interrupt's snapshot or already past it, is that of the burst `burst_active` stands for, and no
burst is in flight beside it (`DoneInv`); and a DONE the interrupt has not seen has it requested
(`RequestInv`).  Nothing in it looks at what a command has still to do, so this and `NoClash`
hold for commands made of these calls in any order.

The other two rest on which call follows which, so their invariant (`CallsInv`) speaks of
`todo`, the calls a command has left.  `Program` is what every command keeps to: a "down"
comes right after its "abort", a change of the pin or of the sampling time has the note of
it ("pend") to come, and that has the "apply" to come.  From it, `EndInv`: a burst nobody
cut off has the channel on, and ended, its DONE is still to be acted on; `SwitchInv`: an
input asked for is in place, or is noted and a burst is in flight whose end will put it
there, or is about to be noted or applied.

`OneshotWhole` needs the command's own place (`OneshotInv`): the calls left are the last k of
`capture_oneshot_n()`, and each k has what holds there - settled, the count taken, the burst
count set, the channel armed, started, waited for.  Between the start and the end of the wait
`Flying` counts the halves: `blocks_done`, the flags the interrupt has not seen and the halves
of the burst in flight add up, so that a run down to 0 bursts left has made exactly two halves
for each; `Braked` is what the brake leaves in the middle of it, and it can no longer reach that
number, because the channel is off.  What cannot be proved, because it is false, is the next
one-shot's within the same burst: its arming sets `stray` (section 5).  `SnapInv` says that what
the interrupt's snapshot holds was raised in order, which is why HALF is counted before DONE
starts the next burst.

**Session** (`SessionInv`).  Commands are data here, so the invariant says of a program what
a reader says of the C: `Clean` - a DAC goes off or into triangle mode only after the
generator's stop, if it is the generator's; a start of the generator comes last and behind its
stop; the DMA window is set between a channel's stop and its start, over the same range.  That
every command is such a program, and that a call that fails leaves one behind (the rest
without the calls it skips, or its fallback), is proved program by program (`Ready` is the
same of a program under way).  Above it the generator is in one of four phases: playing or
silent (`Calm`), or at one of the calls of a stop (`Unwinding` the transport, then `Leaving`
DAC and claim) or of a start (`Starting`, On0 to On9, each with what stands by then).  A
failure in `Starting` falls into `Unwinding`, which is the rollback.  `Windows` says that
a channel that is on moves data within the range noted for it, and that the window covers
the ranges noted.  The constants are free: any buffer, tables below or above it, half
lengths and number of failures; `BoardAssumption` asks only that RAM does not begin at 0
and that one half length is the longest.  `Lab`'s commands use the same calls but are not
part of this theorem.

**Session, the stream** (`OutlineInv`).  What a set-up still has to do is in `todo`, so an
invariant of the registers alone cannot say that a stream will be whole.  `OutlineInv` says that
the rest of the command has a proof outline, as one would write it beside the C: a set of facts
before each call left (`Facts`: the PLL is at the chain's rate, the core is the chain's, the
channels are armed over the pairs, ...), true now before the first one (`Known`).  `After` is
what a call makes of such a set: what it sets is known, what it touches is forgotten, and what
the brake can undo (`run`, the armed channels) is only ever known as far as the brake leaves it.
`Lawful` is what a call needs to be made at all, and that a failure which skips the rest leaves
an outline of the fallback; `Enough` is what must be known at the end - no stream, or everything
`StreamAsSetUp` asks for.  That every command has an outline is proved program by program
(`CommandKept`), with the macro calls that unfold into several; that a call carries its set to
the next one's, call by call (`CallKept`); that the brake keeps the facts, once (`BrakeKept`).
No constant is constrained: which buffer, table or half length a command uses plays no part.

**Lab** (`LabInv`).  The verdict of the chain test is reached over a program of hundreds of
calls, any of which may fail and skip what comes behind it; what must not happen is that one
of them skips into the summary, or into a stage whose verdict then counts.  So the invariant
says what is left to run: nothing of the chain test (`Aside`), the whole of it (`Ahead`), its
set-up (`Setting`), or a *piece* of stage s and behind it the *spine* - the stages to come,
the summary, the restore (`Staging`).  A piece is `Tight`: no call of it skips past its end.
It contains no call that carries a verdict but stage s's own (`OwnCall`), and an attempt on
`g_best` only where the set-up and the trigger are good.  `Verdict(s)` is what the calls so
far have settled: only stages up to s are in `ran`; one of 4 to 6 that is missing was left out
because `ok` or `trigger_ok` is down, and then so is every later one, stage 9 with them;
`g_best` is 0 up to stage 9, where `best_index()` sets it to the fastest rate that is in
`passed` for all of `ran` (`BestIsBest`: of a finite set of rates that is not empty there is a
fastest).  Each laboratory call moves in one of few ways (`Moves`), so each is looked at once
and the core's calls are the same as in **Session**.  The invariant speaks of programs, over
which TLC cannot enumerate: it has only been proved.

**Clock** (`RateHeld`).  `clock_adc_set_rate()` tries one feedback divider for each division,
the rounded one, and compares rates cut off to whole kSPS.  For a single division that need not
be the best - the divider next to it may come out nearer after the cut, or the rounded one may
leave the VCO's range where the next one does not.  The proof goes through the 24 products of
the two dividers and shows that then another division tried is at least as near; for every wish
from 4000 to 40000 kSPS, and with the ties as the code breaks them.

**UartTx** (`TxInv`, `OrderInv`).  While no failure is told, `tx_irq_on` is up outside a
measurement; inside one the ring is empty and the enable off from the flush on (`BootInv`,
`ModeInv`, `QuietInv`).  The enable is on only over a ring with something in it, and
outside the interrupt either `TXIF` or the FIFO stands for the next one (`WakeInv`) - more
than `NoLostWakeup` says, and what every step keeps.  `MoveInv` and `TellInv` say where a
half-done `tx_move()` can be, `RoomInv` that a look at the room stays true until the copy.
For the order, `Front` is where the next byte leaves the ring, counting what `tx_move()`
has taken and not yet written to `tx_tail`: the ring from `Front` on, the FIFO, and the
joint between them are successive numbers.  A trap inside the loop would find `tx_tail`
behind `Front`, which is why `OrderIsKept` excludes it (section 5).

**ConsoleRx** (`RxInv`).  Three facts at every place the interrupt may come in: the
emptying loop runs masked, the service runs busy, and the bytes held, taken and in the
FIFO are in ascending order and all later than what was parsed.  With them go the bytes
still to come, so that what is missing is exactly what was dropped on purpose.

**Routing.**  `OneOwner` with the table's type is inductive: each of `routing_add()`,
`routing_apply()`, and the generator's claim checks against the table as it stands.
`WithinLimits` rests on `Charged`: what the code counts over the table never exceeds the
limits.  One route more adds one to each count it is in and its bytes to the sum
(`HeldOfOneMore`, `WeightOfOneMore`); the pieces of hardware are as many as are counted
(`TaggedCount`).  The sum is a fold over the table, so `WeightOfOneMore` is an induction over
data: a sum exists for every finite set, any element of the set may be taken first
(`SumSteps`), and two sums that agree on every element agree (`SumOfOneMore`).  The induction
is over the size of the set; it rests on the least number principle, an instance of `WFMin`
(`LeastNumber`, `SetInduction`).

**SigProc** (`Continuity`).  Unless the service has marked its own record as void
(`sp_fresh`), the state of the filter chosen and of the counter's resonator is the one left
by the block processed last - the same stream, the same number - or is marked to start
afresh.  `ImpactsExact` compares the count with the history of magnitudes; the invariant
`HeardInv` ties the counter's three fields to it.  With i the magnitude counted last, a
counter that is not armed has seen nothing fall since i and `pk` is the peak since
(`Ringing`); an armed one has fallen at some k for the first time and `tr` is the lowest
since k (`Faded`).  A magnitude more either keeps its case, or passes from one to the other
just when the rule says fallen, or says impact (`HeardRinging`, `HeardArmed`); a reset starts
a history of one entry, what rings (`HeardStarts`).

**Boot** (`BootInv`).  `at` is the step of the start-up; the invariant says at every step what
of the record is known (`Recorded`: it counts every trap since it was last cleared and names the
last one and its stage as far as its stores got, `Recording` within a handler), what has been
told when it is about to be cleared, and that `boot_stage` is the number of marks passed.  A
reset may come at any step, the words are arbitrary after a power-up: `known` becomes true only
when a start has cleared them.

**CmdParser** (`ParserInv`, `HistoryInv`).  `ParserInv` is what `ScreenIsLine` says with the
types: the cursor is within the line, and the terminal's line is the line, then blanks as far
as anything was ever printed (`Shows`).  A step's output is a fold over its characters, so the
first lemmas are that induction once and for all: the fold exists and goes character by
character (`IndexFoldExists`, `PrintingExists`); hence whoever names the screens in between
knows the last one (`Puts`, `WrittenIs`), and outputs joined go through the screens of the one
and then of the other (`PutsJoined`).  On these stand the editor's ways of writing: backspaces
only move (`PutsBack`), text is printed over what stands there (`PutsText`), a backspace, a
blank and a backspace erase (`PutsErased`).  `refreshTail()` and `redrawLine()` are made of
them, and each leaves the new line shown with the cursor where it is asked for (`RefreshShows`,
`RedrawShows`) - provided its blanks reach to the end of the line before, which is what each
caller's count of stale characters is proved to do.

For the history, `Recent` is `HistoryLatest` without its folds: the entries are the last of the
lines kept, within depth and bytes, and one entry more would not be.  An entry added drops the
least number that makes room (`AddedIs`): either the newest of those dropped would not have
gone in with it, or none was dropped and what did not go in before does not go in now
(`RecentAdded`).  The bytes of the pool are a fold again (`SizeIs`; with one entry more at
either end: `SizeWithLast`, `SizeWithFirst`), and are what the flattened entries and their length
bytes come to (`FlattenedIs`).  `Deduplicated` looks each line kept up by its rank; `Ranked` says
that every rank is taken, so that a line submitted adds itself at the end or nothing
(`DedupedIs`).  `Short` bounds line and entries: no line reaches the length that the pool could not
take.  `ParserAssumption` asks that a line fits into the pool and that no printable character
is a backspace.

*Only model-checked.* Liveness (`EveryHalfServed`, `GrabEnds`, `NoByteStuck`, `CommandEnds`) is
out of the prover's reach. `BootAfterChain` and `MeasuredAsClaimed` say what set-up holds before
and after each of the laboratory's sequences; they are checked on the instance of section 3 and
not proved: that needs an outline, as in Session, of each of the laboratory's own commands.

## 5. Where the code and its words differ

Runs that end in a violation, with the line they contradict (`PROJECT.json`, "findings"):

1. `first` - the first grab of a second stream reports the halves of the first one, too:
   `blocks_done` is not cleared, the baseline is set to 0 (`acquisition.c:535`), against
   `acquisition.h:220-223`.
2. `matrix` - after `test matrix` ("back at the boot setting") CLKGEN6's divider stays
   where the last variant, CLKDIV, left it: the base is set "if (v != CAP_VAR_B2B)" only
   (`acquisition.c:204`), against `acquisition.c:201-202`.
3. `pll` - after `rate` a stream's set-up restores PLL1's output dividers and not its
   feedback divider, so CLKGEN13 is not at the 160 MHz every rate is computed from
   (`acquisition.c:375`, `routing.c:352`).
4. `early` - the receive interrupt is enabled at the end of `cli_init()`, before
   `adc_init()` and `capture_init()`: a command can run on a capture that is not set up
   (`cli.c:1090-1092`).
5. `brake` - the overrun brake resets `burst_active` with the ADC still converting
   (`capture.c:469-479`); a one-shot within that burst settles without waiting, arms the
   channel over it, counts its HALF and DONE as its own and returns 0 while its own burst
   still fills the buffer, against `meter.h:68-71`.

Seen while reading and modelling, without a run.  *Stream and grab:*

- After a grab that timed out in the middle of a move, the late completion can fall between
  the next grab's two assignments (`capture.c:806-812`); its request stays pending and moves
  channel 0 into the pair being sent.  Excluded by `~Lossy`.
- `blocks_done` and `ready_off` are read apart (`capture.c:932`, `948`).  With the main loop
  so far behind that a half completes and is booked in between, that half is handed over under
  its predecessor's number and again, or the one after it, with `gap = 0`, against
  `sigproc.h:79-82`.  Excluded from `GapSound` by `TimelyService`.
- `clear` zeroes the counters and not the grab's baselines (`acquisition.c:601`): the next
  grab's differences wrap.
- `capture_transfers()` reads the running channel's count before `done_events`
  (`capture.c:1065`): the sum can be nearly a block too high.
- The brake drops a HALF or DONE that came in the same snapshot (`capture.c:478`).
- A pair torn by a late interrupt in an earlier grab's wait goes out with `late=` of its own
  grab only; the running count has moved (`LateOrWhole`).
- The custom-input stream's restore switches DAC2 off under a triangle the console started,
  though `acquisition.c:336-339` says the DAC is left alone.
- `acquisition.h:215-233` still describes a grab that halts and restarts the stream.

*Bursts:*

- `start` between `capture.c:599` and `604` with the brake in between leaves the run enabled
  and the channel off, against the comment at 651-659.
- After the brake or an aborted burst `switch_pending` stays set until the next DONE;
  `start` after a cut-off burst can find `burst_active` set with nothing in flight.
- `input 6` then `samc 3` within one burst loses the change of input.
- Bursts shorter than their interrupt's run time starve the commands (`Swamped`).

*Board and generator:*

- When channel 2 cannot be started, `siggen_start()` leaves its part of the address window
  claimed; it is harmless until another range is asked for.
- A `clock_dac_on()` that fails for one DAC can stop the clock the other one runs on.
- The DAC's clock from the VCO divider leaves 400 MHz, too, after `rate`.
- `pll 1 1` is accepted (1600 MHz); `clock.h:72-73` says the generator is switched off and
  on while `set_div()` keeps it on; `var_ksps` is stale after `pll` and `rate`.
- `ROUTE_HALF_SAMPLES` is 1024, `SAMPLES_PER_HALF_MAX` 2048; `routing_add()` has no caller in
  the firmware.

*Laboratory commands:*

- Typed under a standing stream some take its channel down while `s_on` stays set; `Lab`
  types them without one.
- `run_dactest` with only DAC1 running judges DAC1 while UREF carries DAC2, and returns
  without `uref_off` when a readback fails (`cli_lab.c:138-141`).
- `test bursts` leaves PLL1 at its last rate; the chain test leaves the half length at 2048;
  `sweep` restarts back-to-back bursts in single mode after a stream; `matrix`'s last
  selection, if it fails, leaves the mode of the variant before.
- `chain run` uses the trigger clock an earlier test corrected; `RPTCNT` is never reset.

*Console, start-up, processing:*

- A trap in the middle of `tx_move()` finds `tx_tail` behind what was taken
  (`uart.c:219`): its report sends those bytes a second time.
- `cli.c:288-289` says nothing is held back with the processing off; bytes are held back
  during every `capture_service()` (`capture.c:904-910` says so).  `uart.c:154-156` says
  every entry of the transmit interrupt finds the FIFO empty; after polled bytes a stale flag
  lets it in with the FIFO in use - harmless, `NoLostWakeup` holds.
- `console_write_raw()` and `cmd_parser_write()` wait without a limit on a dead transmitter;
  `console_puts()` does not.  The main loop's own text can lose a byte to a command that
  fills the ring between `uart_tx_full()` and `uart_putc()`; it is counted.
- A lone ESC swallows the next byte; `ESC[257~` acts as Home.
- A trap before `boot_mark(1)` is told with the previous run's stage.  After a debugger's
  restart the CPU is still on PLL2 while `console_early_init()` divides for the FRC.  A clock
  failure between CLKGEN1's switch and the clearing of `CLKFAILIF` is forgotten.  After
  `fail()` the receive interrupt stays on and commands still run.
- `sigproc gz <thr>` prints the new threshold beside a detection judged by the old one;
  `cn.peak2` is not reset when the counter is set up anew; `cnt_missed` wraps after a `clear`
  or a new stream.

## 6. What is left

Every module planned is written.  Worth doing next: theorems for `BootAfterChain` and
`MeasuredAsClaimed`, with outlines as in Session; a composition of `UartTx` with the dead
transmitter's bounded waits; a theorem on `SeqExact` for an interrupt that may come late, which
so far only the run `late` shows.

## 7. Not modelled, and why

- *Numeric library* (`src/lib`): pure functions, floating point for the most part; the host
  tests hold them to double precision.
- *Simulator model*: compiled out on silicon.  *Boards, pins, port*: data and hooks.
- *Host tools and tests*: read as evidence of what is expected.
- The verdict arithmetic of the laboratory commands: what a measurement yields is chosen
  freely, what is remembered of it is kept.  The block transfer `blk` only sends.
- The guard words behind the buffer: written by a DMA that runs wild, which the window
  already excludes.
- `capture_chain_halt()`, `capture_chain_resume()`, `capture_shutdown()`: no command calls
  them.
- A frame's bytes and CRC; the stack painting, the register dumps, the clock monitor's
  measurement, the load figure `proc_ticks`: wording and figures no state depends on.
- Waits on a dead transmitter and the change of baud rate: the model's transmitter works.
