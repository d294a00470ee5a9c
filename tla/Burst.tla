------------------------------- MODULE Burst -------------------------------
(***************************************************************************)
(* The back-to-back burst stream (capture.c, meter.c, cli_lab.c): one ADC  *)
(* burst fills the buffer, DMA channel 0 flags HALF and DONE, and its      *)
(* interrupt starts the next burst.  The hardware, the interrupt and the   *)
(* console's commands interleave; the interrupt preempts a command between *)
(* any two of its accesses, never the other way round.                     *)
(***************************************************************************)
EXTENDS Calls, FiniteSets

CONSTANTS
  Pins, Samcs,     \* inputs and sample times a command may ask for
  Reference,       \* <<SELFTEST_PINSEL, SELFTEST_SAMC>>
  Bursts,          \* lengths of a one-shot, in bursts
  OvLimit,         \* OVERRUN_LIMIT
  Half,            \* conversions that fill half the buffer
  BlockCap         \* bound: blocks_done is counted up to here, past any target

ASSUME BurstAssumption ==
  /\ OvLimit \in Nat \ {0} /\ Bursts \subseteq Nat \ {0} /\ BlockCap \in Nat
  /\ \A n \in Bursts : 2 * n < BlockCap
  /\ Half \in Nat \ {0}

VARIABLES
  conv,      \* conversions the ADC's burst has still to make, 0 when idle
  hung,      \* no clock, no trigger: the burst never ends
  fill,      \* transfers of the DMA channel's block made so far
  stat,      \* DMA0STAT: the flags "HALF", "DONE", "OVERRUN"
  dmaIf,     \* IFS2.DMA0IF
  chen,      \* DMA0CH.CHEN and IEC2.DMA0IE
  isr,       \* the interrupt: "none", "read", or the flag it looks at next
  st,        \* its snapshot of DMA0STAT
  soft,      \* run_enabled, burst_active, dma_armed, overrun_abort, overrun_run
  left,      \* oneshot_left
  blocks,    \* blocks_done, counted from the command's last target (mark), and
             \* BlockCap when it has none
  input,     \* the channel's <<PINSEL, SAMC>>
  next,      \* <<pinsel_next, samc_next>>
  pending,   \* switch_pending
  meter,     \* the last measurement: what it is, its target, its result
  cut,       \* history: since the channel was last armed, the brake or an abort
             \* has cut a burst off, or one was begun with the channel off, or
             \* the channel was armed over one
  stray      \* history: the channel was last armed with a burst in flight

Block     == blocks' = IF blocks < BlockCap THEN blocks + 1 ELSE blocks
NoMeter   == [kind |-> "none", target |-> 0, rc |-> 0]
adc       == <<conv, hung, fill>>
ghosts    == <<cut, stray>>
burstVars == <<todo, slips, conv, hung, fill, stat, dmaIf, chen, isr, st, soft, left, blocks,
               input, next, pending, meter, ghosts>>

BurstInit ==
  /\ todo = <<>> /\ slips = 0
  /\ conv = 0 /\ hung = FALSE /\ fill = 0 /\ stat = {} /\ dmaIf = FALSE /\ chen = TRUE
  /\ isr = "none" /\ st = {}
  /\ soft = [run |-> FALSE, burst |-> FALSE, armed |-> TRUE, aborted |-> FALSE, ov |-> 0,
             was |-> FALSE]
  /\ left = 0 /\ blocks = BlockCap
  /\ input = <<CHOOSE p \in Pins : TRUE, CHOOSE s \in Samcs : TRUE>>
  /\ next = input /\ pending = FALSE
  /\ meter = NoMeter /\ cut = FALSE /\ stray = FALSE

----------------------------------------------------------------------------
(* The hardware.                                                           *)
Raise(flag) == stat' = stat \cup {flag} /\ dmaIf' = TRUE
HwRest == UNCHANGED <<todo, slips, chen, isr, st, soft, left, blocks, input, next, pending, meter,
                      ghosts>>

\* A conversion.  The channel, when it is on, moves it to the buffer and
\* flags the middle and the end of its block; when it is off, nobody hears.
Convert ==
  /\ conv > 0 /\ ~hung /\ conv' = conv - 1
  /\ fill' = IF ~chen THEN fill ELSE IF fill + 1 = 2 * Half THEN 0 ELSE fill + 1
  /\ CASE chen /\ fill + 1 = Half     -> Raise("HALF")
       [] chen /\ fill + 1 = 2 * Half -> Raise("DONE")
       [] OTHER                       -> UNCHANGED <<stat, dmaIf>>
  /\ UNCHANGED hung /\ HwRest
HwOverrun == conv > 0 /\ ~hung /\ chen /\ Raise("OVERRUN") /\ UNCHANGED adc /\ HwRest
HwHang    == conv > 0 /\ ~hung /\ hung' = TRUE /\ UNCHANGED <<conv, fill, stat, dmaIf>> /\ HwRest

\* The trigger of a burst.  What one does to a burst in flight nothing
\* says: it is lost, or the burst begins anew.
adc_start_burst == conv' \in IF conv = 0 THEN {2 * Half} ELSE {conv, 2 * Half}

----------------------------------------------------------------------------
(* _DMA0Interrupt() and dma0_event().                                      *)
IsrRest == UNCHANGED <<todo, slips, hung, fill, chen, next, meter, ghosts>>

\* The interrupt flag is cleared first, then the status is read, once.
IsrEnter ==
  /\ isr = "none" /\ dmaIf /\ chen
  /\ isr' = "read" /\ dmaIf' = FALSE
  /\ UNCHANGED <<conv, stat, st, soft, left, blocks, input, pending>> /\ IsrRest
IsrRead ==
  /\ isr = "read"
  /\ isr' = "OVERRUN" /\ st' = stat
  /\ UNCHANGED <<conv, stat, dmaIf, soft, left, blocks, input, pending>> /\ IsrRest

\* MUTANT: every flag is cleared, seen or not.
ClearAll(flags) == stat' = {}

\* The whole word is written, 0 in these flags only (dma0_clear()).
dma0_clear(flags) == stat' = stat \ flags

Brake ==
  /\ chen' = FALSE
  /\ soft' = [soft EXCEPT !.run = FALSE, !.burst = FALSE, !.armed = FALSE, !.aborted = TRUE,
                          !.ov = OvLimit]
  /\ isr' = "none" /\ st' = {} /\ cut' = TRUE     \* the ADC's burst goes on, unheard
IsrOverrun ==
  /\ isr = "OVERRUN"
  /\ IF "OVERRUN" \notin st
     THEN isr' = "HALF" /\ UNCHANGED <<stat, chen, st, soft, cut>>
     ELSE /\ dma0_clear({"OVERRUN"})
          /\ IF soft.ov + 1 >= OvLimit THEN Brake
             ELSE /\ soft' = [soft EXCEPT !.ov = soft.ov + 1]
                  /\ isr' = "HALF" /\ UNCHANGED <<chen, st, cut>>
  /\ UNCHANGED <<todo, slips, adc, dmaIf, left, blocks, input, next, pending, meter, stray>>

IsrHalf ==
  /\ isr = "HALF"
  /\ isr' = "DONE"
  /\ IF "HALF" \in st THEN dma0_clear({"HALF"}) /\ Block
                      ELSE UNCHANGED <<stat, blocks>>
  /\ UNCHANGED <<conv, dmaIf, st, soft, left, input, pending>> /\ IsrRest

\* The flag goes first; what DONE means is decided after it: the input
\* change, then the next burst or the end.
IsrDone ==
  /\ isr = "DONE"
  /\ isr' = IF "DONE" \in st THEN "after" ELSE "none"
  /\ st' = {}
  /\ IF "DONE" \in st THEN dma0_clear({"DONE"}) /\ Block
                      ELSE UNCHANGED <<stat, blocks>>
  /\ UNCHANGED <<conv, dmaIf, soft, left, input, pending>> /\ IsrRest
Again == IF left # 0 THEN left > 1 ELSE soft.run
\* MUTANT: the input changes only when another burst follows.
SwitchBeforeNextOnly ==
  /\ isr = "after" /\ isr' = "none"
  /\ input' = IF pending /\ Again THEN next ELSE input
  /\ pending' = (pending /\ ~Again)
  /\ left' = IF left # 0 THEN left - 1 ELSE 0
  /\ IF Again THEN adc_start_burst /\ soft' = [soft EXCEPT !.burst = TRUE]
              ELSE /\ soft' = [soft EXCEPT !.burst = FALSE, !.run = soft.run /\ left = 0]
                   /\ UNCHANGED conv
  /\ UNCHANGED <<stat, dmaIf, st, blocks>> /\ IsrRest

IsrAfterDone ==
  /\ isr = "after" /\ isr' = "none"
  /\ input' = IF pending THEN next ELSE input
  /\ pending' = FALSE
  /\ left' = IF left # 0 THEN left - 1 ELSE 0
  /\ IF Again THEN adc_start_burst /\ soft' = [soft EXCEPT !.burst = TRUE]
              ELSE /\ soft' = [soft EXCEPT !.burst = FALSE, !.run = soft.run /\ left = 0]
                   /\ UNCHANGED conv
  /\ UNCHANGED <<stat, dmaIf, st, blocks>> /\ IsrRest

Isr == IsrEnter \/ IsrRead \/ IsrOverrun \/ IsrHalf \/ IsrDone \/ IsrAfterDone

----------------------------------------------------------------------------
(* Commands run between interrupts, one access at a time.                  *)
At(f)    == isr = "none" /\ ~(dmaIf /\ chen) /\ Now(f)
Soft(f, new) ==
  /\ At(f) /\ Done /\ soft' = new
  /\ UNCHANGED <<adc, stat, dmaIf, chen, isr, st, left, blocks, input, next, pending, meter, ghosts>>

capture_stop == Soft("stop", [soft EXCEPT !.run = FALSE, !.was = soft.run])

\* capture_settle(): stop, wait for the burst - or take the core down and
\* up -, then the channel down.
capture_settle == <<Do("stop"), Do("burst over"), Do("abort"), Do("down")>>
\* MUTANT: the wait has no limit.
SettleWaitForever ==
  /\ At("burst over") /\ IF soft.burst THEN UNCHANGED <<todo, slips>> ELSE Done
  /\ UNCHANGED <<adc, stat, dmaIf, chen, isr, st, soft, left, blocks, input, next, pending,
                 meter, ghosts>>

SettleWait ==
  /\ At("burst over") /\ Done
  /\ soft.burst => conv = 0 \/ hung     \* WAIT_LIMIT
  /\ UNCHANGED <<adc, stat, dmaIf, chen, isr, st, soft, left, blocks, input, next, pending,
                 meter, ghosts>>
SettleAbort ==
  /\ At("abort") /\ Done
  /\ IF soft.burst
     THEN conv' = 0 /\ hung' = FALSE /\ soft' = [soft EXCEPT !.burst = FALSE] /\ cut' = TRUE
     ELSE UNCHANGED <<conv, hung, soft, cut>>
  /\ UNCHANGED <<fill, stat, dmaIf, chen, isr, st, left, blocks, input, next, pending, meter,
                 stray>>
\* dma0_deinit() masks the interrupt first.
SettleDown ==
  /\ At("down") /\ Done
  /\ chen' = FALSE /\ stat' = {} /\ dmaIf' = FALSE
  /\ soft' = [soft EXCEPT !.armed = FALSE]
  /\ UNCHANGED <<adc, isr, st, left, blocks, input, next, pending, meter, ghosts>>

\* capture_start(): arm if the channel is down, enable, and start a burst
\* unless one is in flight - the interrupt restarts that one.
capture_start == <<Do("arm"), Do("enable"), Do("start")>>
StartArm ==
  /\ At("arm") /\ Done
  /\ IF soft.armed THEN UNCHANGED <<fill, stat, dmaIf, chen, soft, ghosts>>
     ELSE /\ fill' = 0 /\ stat' = {} /\ dmaIf' = FALSE /\ chen' = TRUE
          /\ soft' = [soft EXCEPT !.armed = TRUE]
          /\ stray' = (conv # 0 \/ soft.burst) /\ cut' = stray'
  /\ UNCHANGED <<conv, hung, isr, st, left, blocks, input, next, pending, meter>>
StartEnable == Soft("enable", [soft EXCEPT !.run = TRUE, !.ov = 0, !.aborted = FALSE])
\* MUTANT: a burst is started whether or not one is in flight.
StartAnyway ==
  /\ At("start") /\ Done
  /\ adc_start_burst /\ soft' = [soft EXCEPT !.burst = TRUE] /\ cut' = (cut \/ ~chen)
  /\ UNCHANGED <<hung, fill, stat, dmaIf, chen, isr, st, left, blocks, input, next, pending, meter,
                 stray>>

StartBurst ==
  /\ At("start") /\ Done
  /\ IF soft.burst
     THEN UNCHANGED <<conv, soft, cut>>
     ELSE adc_start_burst /\ soft' = [soft EXCEPT !.burst = TRUE] /\ cut' = (cut \/ ~chen)
  /\ UNCHANGED <<hung, fill, stat, dmaIf, chen, isr, st, left, blocks, input, next, pending, meter,
                 stray>>

\* capture_set_input(): the two fields, the request, and - with no burst
\* in flight - the change itself.
capture_set_input(in) == <<Call("pinsel", in[1]), Call("samc", in[2]), Do("pend"), Do("apply")>>
SetNext ==
  /\ \/ At("pinsel") /\ next' = <<Arg, next[2]>> /\ UNCHANGED pending
     \/ At("samc")   /\ next' = <<next[1], Arg>> /\ UNCHANGED pending
     \/ At("pend")   /\ pending' = TRUE /\ UNCHANGED next
  /\ Done
  /\ UNCHANGED <<adc, stat, dmaIf, chen, isr, st, soft, left, blocks, input, meter, ghosts>>
SetNow ==
  /\ At("apply") /\ Done
  /\ IF soft.burst THEN UNCHANGED <<input, pending>>
                   ELSE input' = next /\ pending' = FALSE
  /\ UNCHANGED <<adc, stat, dmaIf, chen, isr, st, soft, left, blocks, next, meter, ghosts>>

\* A target is blocks_done and so many more; wait_for_blocks() returns 0,
\* 8 (the channel is off) or 6 (nothing moves).
Mark ==
  /\ At("mark") /\ Done /\ blocks' = 0
  /\ UNCHANGED <<adc, stat, dmaIf, chen, isr, st, soft, left, input, next, pending, meter, ghosts>>
Wait ==
  /\ At("wait") /\ Done
  /\ \E rc \in {0, 6, 8} :
       /\ CASE rc = 0 -> blocks >= Arg
            [] rc = 8 -> blocks < Arg /\ ~chen
            [] rc = 6 -> blocks < Arg /\ chen /\ (conv = 0 \/ hung)
       /\ meter' = [meter EXCEPT !.target = Arg, !.rc = rc]
  /\ UNCHANGED <<adc, stat, dmaIf, chen, isr, st, soft, left, blocks, input, next, pending, ghosts>>
Then ==
  /\ At("then") /\ Instead(IF CASE Arg.if = "ok"  -> meter.rc = 0
                                 [] Arg.if = "was stopped" -> ~soft.was
                            THEN Arg.do ELSE <<>>)
  /\ UNCHANGED <<adc, stat, dmaIf, chen, isr, st, soft, left, blocks, input, next, pending,
                 meter, ghosts>>
SetLeft ==
  /\ At("left") /\ Done /\ left' = Arg
  /\ UNCHANGED <<adc, stat, dmaIf, chen, isr, st, soft, blocks, input, next, pending, meter, ghosts>>

wait_for_blocks(n) == <<Do("mark"), Call("wait", n)>>
\* MUTANT: the stream starts before the interrupt knows how many bursts.
OneshotCountLate(n) ==
  capture_settle \o <<Do("mark")>> \o capture_start
  \o <<Call("left", n), Call("wait", 2 * n), Call("left", 0), Do("stop")>>

capture_oneshot_n(n) ==
  capture_settle \o <<Do("mark"), Call("left", n)>> \o capture_start
  \o <<Call("wait", 2 * n), Call("left", 0), Do("stop")>>
capture_measure_rate(halves) ==
  capture_settle \o <<Do("mark")>> \o capture_start \o <<Call("wait", halves)>> \o capture_settle
\* The reference in, some halves, the old input back; a stream goes on.
capture_selftest(halves) ==
  capture_settle \o capture_set_input(Reference) \o capture_start \o wait_for_blocks(halves)
  \o capture_set_input(input)
  \o <<Call("then", [if |-> "ok", do |-> wait_for_blocks(halves)]),
       Call("then", [if |-> "was stopped", do |-> <<Do("stop")>>])>>

Type(kind, p) ==
  /\ Begin(p) /\ isr = "none" /\ ~(dmaIf /\ chen)
  /\ meter' = [NoMeter EXCEPT !.kind = kind] /\ blocks' = BlockCap
  /\ UNCHANGED <<adc, stat, dmaIf, chen, isr, st, soft, left, input, next, pending, ghosts>>
Start    == Type("other", capture_start)
Stop     == Type("other", <<Do("stop")>>)
Input    == \E p \in Pins : Type("other", capture_set_input(<<p, input[2]>>))
Samc     == \E s \in Samcs : Type("other", capture_set_input(<<input[1], s>>))
Settle   == Type("other", capture_settle)                        \* "buf", "core"
Oneshot  == \E n \in Bursts : Type("oneshot", capture_oneshot_n(n))
Rate     == Type("other", capture_measure_rate(3))
Selftest == Type("other", capture_selftest(2))

BurstCommand == Start \/ Stop \/ Input \/ Samc \/ Settle \/ Oneshot \/ Rate \/ Selftest
BurstCall == capture_stop \/ SettleWait \/ SettleAbort \/ SettleDown
             \/ StartArm \/ StartEnable \/ StartBurst \/ SetNext \/ SetNow
             \/ Mark \/ Wait \/ Then \/ SetLeft
Hardware == Convert \/ HwOverrun \/ HwHang
BurstNext == BurstCommand \/ BurstCall \/ Hardware \/ Isr

\* An interrupt is taken, a burst that does not hang ends, and a command
\* that gets the CPU again and again between the interrupts goes on.
BurstFair == WF_burstVars(Isr) /\ SF_burstVars(BurstCall) /\ WF_burstVars(Convert)
BurstSpec == BurstInit /\ [][BurstNext]_burstVars /\ BurstFair

----------------------------------------------------------------------------
\* A burst that has ended is never forgotten: its DONE is still in the
\* status word with the interrupt requested, or in the snapshot the running
\* interrupt has yet to act on (dma.c: the flag cleared first, the word
\* written whole - a DONE lost this way once stopped the stream, fail 6).
EndIsSeen ==
  soft.burst /\ conv = 0 /\ ~cut =>
    \/ "DONE" \in stat /\ (dmaIf \/ isr = "read")
    \/ isr \in {"OVERRUN", "HALF", "DONE"} /\ "DONE" \in st
    \/ isr = "after"

\* No burst is begun while one is in flight, whatever "start", "stop", a
\* one-shot or a settle races the DONE interrupt (capture.c, burst_active) -
\* but for a burst the code has lost: the brake resets burst_active with
\* the ADC still converting (BufferStands).
NoClash == [][conv' > conv => conv = 0 \/ cut]_burstVars

\* An input change is never left over: with no burst in flight and nothing
\* running, the request has been carried out - unless a burst was cut off
\* by the brake or the abort, which carry nothing out
\* (capture_set_input() against the DONE interrupt).
SwitchCarriedOut ==
  Rest /\ isr = "none" /\ ~soft.burst /\ ~cut => ~pending /\ input = next

\* A one-shot that reports success has filled the buffer with exactly its
\* bursts, and nothing converts or moves any more while it is looked at,
\* the brake at any moment of it included - unless a burst that an earlier
\* brake had left converting was in flight when it armed the channel
\* (BufferStands).
OneshotWhole ==
  Rest /\ meter.kind = "oneshot" /\ meter.rc = 0 /\ ~stray =>
    /\ blocks = meter.target /\ conv = 0 /\ left = 0
    /\ ~soft.burst /\ ~soft.run /\ stat \cap {"HALF", "DONE"} = {}

\* What meter.h says of a one-shot that reports success: nothing writes the
\* buffer any more.  It does when the brake fell just before: capture_settle()
\* finds burst_active reset and waits for nothing, and the channel hears the
\* burst the brake left (dma0_event(), capture_settle()).
BufferStands == Rest /\ meter.kind = "oneshot" /\ meter.rc = 0 => conv = 0 \/ ~chen

\* A half completes while the handler of the one before still runs: halves
\* shorter than a few microseconds ("buf 16" at 40 MSPS).
Swamped == isr # "none" /\ dmaIf /\ stat \cap {"HALF", "DONE"} # {}

\* Every command comes back: a burst that hangs, or that the brake has cut
\* off, is waited for a bounded time and aborted, and no measurement waits
\* for a stream that stands.  Only halves faster than their handler can
\* keep the CPU (capture_settle(), wait_for_blocks()).
CommandEnds == ~Rest ~> (Rest \/ Swamped)
=============================================================================
