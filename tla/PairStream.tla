----------------------------- MODULE PairStream -----------------------------
(***************************************************************************)
(* The triggered stream of core/capture.c with the signal processing and   *)
(* the "stream grab" of core/gui_link.c and core/acquisition.c.            *)
(*                                                                         *)
(* Four actors share the state, in this order of priority:                 *)
(*   the DMA hardware   channels 0 and 1 fill the two halves of a pair in  *)
(*                      turn, with no software in between;                 *)
(*   the DMA interrupt  (priority 4) books a completed half and moves the  *)
(*                      channels on to the other pair when a grab asks;    *)
(*   a console command  (priority 1, inside the receive interrupt) -       *)
(*                      "stream on|off|grab", "sigproc", "clear";          *)
(*   the main loop      (priority 0), capture_service() for ever.          *)
(*                                                                         *)
(* A half is one buffer slot: 0, 1 are ping and pong of pair A, 2, 3 of    *)
(* pair B (the code's sample offsets divided by half_len, which does not   *)
(* change while a stream runs).  Half numbers and counters are uint32_t in *)
(* the code; here they wrap at W.                                          *)
(***************************************************************************)
EXTENDS Integers, Sequences, FiniteSets

CONSTANTS
  W,             \* the counters count modulo W (2^32 in the program)
  MaxLag,        \* bound: halves the main loop may be behind, when it may be
  MaxLate,       \* bound: late interrupts of a stream
  WaitHalves,    \* the grab's time limit in half periods (4 in the program)
  OverrunLimit,  \* overruns in a run before the brake (500000 in the program)
  Commands,      \* the console commands that may be typed
  TimelyIsr,     \* TRUE: the DMA interrupt runs within a half period
  TimelyService, \* TRUE: a half is served before the next one completes
  Lossy          \* TRUE: a half may take longer than its nominal period

ASSUME ConstantsAssumption ==
  /\ W \in Nat /\ W >= 4
  /\ MaxLag \in 1 .. (W - 3) /\ MaxLate \in 1 .. (W - 1)
  /\ WaitHalves \in Nat \ {0}
  /\ OverrunLimit \in Nat \ {0}
  /\ Commands \subseteq {"on", "off", "grab", "sigproc", "clear"}
  /\ {TimelyIsr, TimelyService, Lossy} \subseteq BOOLEAN

Chan == {0, 1}
Slot == 0 .. 3
Torn == W                  \* the content of a slot no single half filled
NoSlot == 4                \* PAIR_NONE
Half == 0 .. (W - 1)       \* a half's number modulo W

Plus(n, k)  == (n + k) % W
Minus(n, k) == (n - k) % W
Other(pair) == IF pair = 0 THEN 2 ELSE 0

-----------------------------------------------------------------------------
VARIABLES
  trig,     \* SCCP1 runs: the ADC converts, each result is one transfer
  armed,    \* channels enabled and their interrupts unmasked (CHEN, DMAxIE)
  chan,     \* the channel whose PCHEN is set: it is the one that writes
  dst,      \* DMAxDST of the two channels
  stat,     \* the channels whose DMAxSTAT.DONE is set
  ovr,      \* DMAxSTAT.OVERRUN of either channel
  irq       \* the pending interrupt flags (IFS2)

hwVars == <<trig, armed, chan, dst, stat, ovr, irq>>

(* What the slots hold: the model's own account of the data, never read by *)
(* the program.  hwseq: the number of the half being filled, the value     *)
(* blocks_done will have when it is booked; stamp: the number of the half  *)
(* in (or coming into) a slot; done: how often sigproc_block() wrote over  *)
(* it since; handed: the half of this stream that sigproc_block() was      *)
(* given last.                                                             *)
VARIABLES hwseq, stamp, done, handed

dataVars == <<hwseq, stamp, done, handed>>

VARIABLES
  run_enabled, chain_mode, s_on,
  blocks_done, ready_off, late_service, overrun_run, overrun_abort,
  pair_base, pair_req, pair_moving, pair_frozen

runVars  == <<run_enabled, chain_mode, s_on>>
isrVars  == <<blocks_done, ready_off, late_service, overrun_run, overrun_abort>>
pairVars == <<pair_base, pair_req, pair_moving, pair_frozen>>

VARIABLES
  seen_blocks, missed, sp_fresh, sp_last_seq, sigproc_on, sigproc_busy,
  svc       \* the call of capture_service() in progress in each context

ppVars  == <<seen_blocks, missed>>
spVars  == <<sp_fresh, sp_last_seq, sigproc_on, sigproc_busy>>

VARIABLES
  cpc,      \* where the console command is, "idle" when none runs
  cret,     \* what follows chain_stream_off(): "idle" or "on"
  elapsed,  \* half periods since the grab asked for the move
  asked,    \* blocks_done when it asked (the model's own)
  win,      \* the slot the frame's pointer addresses, NoSlot outside
  frame     \* what was sent of each half: its number, how often processed

cmdVars == <<cpc, cret, elapsed, asked, win, frame>>

vars == <<hwVars, dataVars, runVars, isrVars, pairVars, ppVars, spVars, svc,
          cmdVars>>

Ctx == {"main", "cmd"}
IdleSvc == [pc |-> "idle", proc |-> FALSE, off |-> 0, num |-> 0]
Lag == Minus(blocks_done, seen_blocks)

Asking  == cpc \in {"check", "wait", "time", "last"}
Sending == cpc \in {"send", "poll", "end"}
ChainActive == chain_mode /\ run_enabled       \* capture_chain_active()

-----------------------------------------------------------------------------
(* The hardware. *)

LaterStuck == elapsed                            \* mutant: t0 read anew
Later == IF Asking /\ elapsed < WaitHalves + 2 THEN elapsed + 1 ELSE elapsed

(* Channel chan completes its half: its DONE flag and its interrupt, and   *)
(* the other channel starts where its DMAxDST points.                      *)
HwHalf ==
  /\ trig /\ armed
  /\ TimelyIsr => irq = {}
  /\ TimelyService =>
       Lag = 0 /\ \A x \in Ctx : svc[x].pc \notin {"read", "process"}
  /\ Lag + Cardinality(stat) < MaxLag                              \* bound
  /\ late_service < MaxLate                                        \* bound
  /\ stat' = stat \cup {chan}
  /\ irq' = irq \cup {chan}
  /\ chan' = 1 - chan
  /\ hwseq' = Plus(hwseq, 1)
  /\ stamp' = [stamp EXCEPT ![dst[1 - chan]] = hwseq']
  /\ done' = [done EXCEPT ![dst[1 - chan]] = 0]
  /\ elapsed' = Later
  /\ UNCHANGED <<trig, armed, dst, ovr, handed, runVars, isrVars, pairVars,
                 ppVars, spVars, svc, cpc, cret, asked, win, frame>>

(* A half period passes and completes nothing: the stream is down, or      *)
(* (Lossy) transfers were lost to overruns and the half takes longer.      *)
HwStall ==
  /\ Lossy \/ ~(trig /\ armed)
  /\ elapsed' = Later /\ elapsed' # elapsed
  /\ UNCHANGED <<hwVars, dataVars, runVars, isrVars, pairVars, ppVars, spVars,
                 svc, cpc, cret, asked, win, frame>>

(* A trigger came while the previous transfer was still in progress. *)
Overrun ==
  /\ trig /\ armed /\ ~ovr
  /\ ovr' = TRUE
  /\ irq' = irq \cup {chan}
  /\ UNCHANGED <<trig, armed, chan, dst, stat, dataVars, runVars, isrVars,
                 pairVars, ppVars, spVars, svc, cmdVars>>

-----------------------------------------------------------------------------
(* The DMA interrupt: pp_service() takes and clears both status words in   *)
(* one go and hands them to dma0_event().  Its own run time is far below a *)
(* half period, so it is one step.                                         *)

(* The brake: interrupt masked, channels off; the stream is not resumed. *)
Brake ==
  /\ armed' = FALSE
  /\ run_enabled' = FALSE
  /\ overrun_abort' = TRUE
  /\ UNCHANGED <<chain_mode, s_on, blocks_done, ready_off, late_service, dst,
                 stamp, done, pairVars>>

(* half: channel 0's DONE, the ping half complete; full: channel 1's. *)

LateUncounted(half, full) == late_service                       \* mutant
Late(half, full) ==
  IF half /\ full THEN Plus(late_service, 1) ELSE late_service

ReadyAfterTurn(half, full) ==            \* mutant: pair_base turned first
  IF full THEN pair_base' + 1 ELSE IF half THEN pair_base' ELSE ready_off
Ready(half, full) ==
  IF full THEN pair_base + 1 ELSE IF half THEN pair_base ELSE ready_off

TurnAskedAgain(next) ==                  \* mutant: pair_req left set
  /\ pair_frozen' = pair_base /\ pair_base' = next
  /\ pair_moving' = FALSE /\ pair_req' = pair_req
TurnSwapped(next) ==                     \* mutant: the new base is frozen
  /\ pair_base' = next /\ pair_frozen' = next
  /\ pair_moving' = FALSE /\ pair_req' = FALSE
Turn(next) ==
  /\ pair_frozen' = pair_base /\ pair_base' = next
  /\ pair_moving' = FALSE /\ pair_req' = FALSE

(* The ping half complete, channel 0 waits: a grab's request sends it to   *)
(* the other pair; the pong half complete, channel 1 follows and the pair  *)
(* is the grab's.  Moving the DMAxDST of a channel that is running spoils  *)
(* the slot it leaves and the slot it enters.                              *)
Booked(half, full) ==
  LET next  == Other(pair_base)
      moves == half /\ pair_req /\ ~pair_moving
      turns == full /\ (pair_moving \/ moves)
      to    == [c \in Chan |-> IF c = 0 /\ moves THEN next
                               ELSE IF c = 1 /\ turns THEN next + 1
                               ELSE dst[c]]
      torn  == IF to[chan] = dst[chan] THEN {} ELSE {to[chan], dst[chan]}
  IN
  /\ late_service' = Late(half, full)
  /\ blocks_done' = Plus(blocks_done, (IF half THEN 1 ELSE 0)
                                      + (IF full THEN 1 ELSE 0))
  /\ dst' = to
  /\ stamp' = [s \in Slot |-> IF s \in torn THEN Torn ELSE stamp[s]]
  /\ done' = [s \in Slot |-> IF s \in torn THEN 0 ELSE done[s]]
  /\ IF turns THEN Turn(next)
     ELSE /\ pair_moving' = (pair_moving \/ moves)
          /\ UNCHANGED <<pair_req, pair_frozen, pair_base>>
  /\ ready_off' = Ready(half, full)
  /\ UNCHANGED <<armed, run_enabled, chain_mode, s_on, overrun_abort>>

DmaIsr ==
  /\ armed
  /\ \E c \in irq : irq' = irq \ {c}
  /\ stat' = {} /\ ovr' = FALSE
  /\ overrun_run' = IF ovr THEN overrun_run + 1 ELSE overrun_run
  /\ IF ovr /\ overrun_run' >= OverrunLimit
       THEN Brake
       ELSE Booked(0 \in stat, 1 \in stat)
  /\ UNCHANGED <<trig, chan, hwseq, handed, ppVars, spVars, svc, cmdVars>>

-----------------------------------------------------------------------------
(* capture_service(), run by the main loop for ever and by a grab while it *)
(* waits ("wait", "last") and between two chunks of its frame ("poll").    *)

Runs(x) == IF x = "main" THEN cpc = "idle" ELSE cpc \in {"wait", "last", "poll"}

(* Where the grab goes on once its call of capture_service() returns. *)
Resume(x) ==
  \/ /\ x = "main" \/ cpc = "wait"
     /\ cpc' = IF x = "main" THEN cpc ELSE "time"
     /\ UNCHANGED <<asked, elapsed, win, frame>>
  \/ /\ x = "cmd" /\ cpc = "last"                 \* the header's counters
     /\ cpc' = "send"
     /\ win' = pair_frozen
     /\ elapsed' = 0
     /\ UNCHANGED <<asked, frame>>
  \/ /\ x = "cmd" /\ cpc = "poll"
     /\ cpc' \in {"end"} \cup (IF Len(frame) < 2 THEN {"send"} ELSE {})
     /\ UNCHANGED <<asked, elapsed, win, frame>>

ServiceEnterRaw(x) ==            \* mutant: a command's own calls do not process
  /\ svc[x].pc = "idle" /\ Runs(x)
  /\ svc' = [svc EXCEPT ![x] = [IdleSvc EXCEPT !.pc = "entry",
                                 !.proc = sigproc_on /\ x = "main"]]
  /\ UNCHANGED <<hwVars, dataVars, runVars, isrVars, pairVars, ppVars, spVars,
                 cmdVars>>

ServiceEnter(x) ==               \* const bool processing = sigproc_on
  /\ svc[x].pc = "idle" /\ Runs(x)
  /\ svc' = [svc EXCEPT ![x] = [IdleSvc EXCEPT !.pc = "entry", !.proc = sigproc_on]]
  /\ UNCHANGED <<hwVars, dataVars, runVars, isrVars, pairVars, ppVars, spVars,
                 cmdVars>>

ServiceLook(x) ==                \* busy; blocks_done read once, passed on
  /\ svc[x].pc = "entry" /\ Runs(x)
  /\ sigproc_busy' = TRUE
  /\ svc' = [svc EXCEPT ![x].pc = "book", ![x].num = blocks_done]
  /\ UNCHANGED <<hwVars, dataVars, runVars, isrVars, pairVars, ppVars, sp_fresh,
                 sp_last_seq, sigproc_on, cmdVars>>

BehindSigned(n) == n > seen_blocks         \* mutant: fails at the wrap
Behind(n) == n # seen_blocks

(* pingpong_service(): nothing new, or the bookmark moves on and the       *)
(* halves in between are missed.                                           *)
ServiceNothing(x) ==
  /\ svc[x].pc = "book" /\ Runs(x)
  /\ ~Behind(svc[x].num)
  /\ sigproc_busy' = FALSE
  /\ svc' = [svc EXCEPT ![x] = IdleSvc]
  /\ Resume(x)
  /\ UNCHANGED <<hwVars, dataVars, runVars, isrVars, pairVars, ppVars, sp_fresh,
                 sp_last_seq, sigproc_on, cret>>

ServiceBook(x) ==
  /\ svc[x].pc = "book" /\ Runs(x)
  /\ Behind(svc[x].num)
  /\ missed' = Plus(missed, Minus(svc[x].num, seen_blocks) - 1)
  /\ seen_blocks' = svc[x].num
  /\ svc' = [svc EXCEPT ![x].pc = "read"]
  /\ UNCHANGED <<hwVars, dataVars, runVars, isrVars, pairVars, spVars, cmdVars>>

ServiceRead(x) ==                \* const uint32_t off = ready_off
  /\ svc[x].pc = "read" /\ Runs(x)
  /\ svc' = [svc EXCEPT ![x].pc = "process", ![x].off = ready_off,
                        ![x].num = stamp[ready_off]]
  /\ UNCHANGED <<hwVars, dataVars, runVars, isrVars, pairVars, ppVars, spVars,
                 cmdVars>>

Gap == sp_fresh \/ seen_blocks # Plus(sp_last_seq, 1)   \* sigproc_info_t.gap

ServiceProcess(x) ==
  /\ svc[x].pc = "process" /\ Runs(x)
  /\ IF svc[x].proc
       THEN /\ done' = [done EXCEPT ![svc[x].off] = IF @ < 2 THEN @ + 1 ELSE @]
            /\ handed' = svc[x].num
            /\ sp_last_seq' = seen_blocks
            /\ sp_fresh' = FALSE
       ELSE UNCHANGED <<done, handed, sp_last_seq, sp_fresh>>
  /\ sigproc_busy' = FALSE
  /\ svc' = [svc EXCEPT ![x] = IdleSvc]
  /\ Resume(x)
  /\ UNCHANGED <<hwVars, hwseq, stamp, runVars, isrVars, pairVars, ppVars,
                 sigproc_on, cret>>

Service(x) == \/ ServiceEnter(x)   \/ ServiceLook(x) \/ ServiceNothing(x)
              \/ ServiceBook(x)    \/ ServiceRead(x) \/ ServiceProcess(x)

-----------------------------------------------------------------------------
(* The console: uart_rx_hook() holds a command back while capture_service()*)
(* runs; one command runs at a time, and the main loop waits for it.       *)

Typed(c) == c \in Commands /\ cpc = "idle" /\ ~sigproc_busy

(* "sigproc on", "sigproc off": capture_sigproc_enable() *)
Sigproc ==
  /\ Typed("sigproc")
  /\ sigproc_on' = ~sigproc_on
  /\ sp_fresh' = (sp_fresh \/ ~sigproc_on)
  /\ UNCHANGED <<hwVars, dataVars, runVars, isrVars, pairVars, ppVars,
                 sp_last_seq, sigproc_busy, svc, cmdVars>>

CountersClearCarries ==          \* mutant: sp_fresh not set
  /\ sp_fresh' = sp_fresh
  /\ overrun_abort' = FALSE /\ overrun_run' = 0
  /\ late_service' = 0
  /\ missed' = 0 /\ seen_blocks' = blocks_done

(* counters_clear() *)
CountersClear ==
  /\ sp_fresh' = TRUE
  /\ overrun_abort' = FALSE /\ overrun_run' = 0
  /\ late_service' = 0
  /\ missed' = 0 /\ seen_blocks' = blocks_done

Clear ==
  /\ Typed("clear")
  /\ CountersClear
  /\ UNCHANGED <<hwVars, dataVars, runVars, blocks_done, ready_off, pairVars,
                 sp_last_seq, sigproc_on, sigproc_busy, svc, cmdVars>>

(* "stream off", and the first thing "stream on" does: chain_stream_off(). *)
StreamOff ==
  /\ s_on
  /\ \/ Typed("off") /\ cret' = "idle"
     \/ Typed("on") /\ cret' = "on"
  /\ cpc' = "off_trig"
  /\ UNCHANGED <<hwVars, dataVars, runVars, isrVars, pairVars, ppVars, spVars,
                 svc, elapsed, asked, win, frame>>

OffTrigger ==                    \* sccp1_stop(); then a wait of 2 us
  /\ cpc = "off_trig"
  /\ trig' = FALSE
  /\ cpc' = "off_run"
  /\ UNCHANGED <<armed, chan, dst, stat, ovr, irq, dataVars, runVars, isrVars,
                 pairVars, ppVars, spVars, svc, cret, elapsed, asked, win,
                 frame>>

OffRun ==                        \* capture_settle(): capture_stop() first
  /\ cpc = "off_run"
  /\ run_enabled' = FALSE
  /\ cpc' = "off_mode"
  /\ UNCHANGED <<hwVars, dataVars, chain_mode, s_on, isrVars, pairVars, ppVars,
                 spVars, svc, cret, elapsed, asked, win, frame>>

OffMode ==
  /\ cpc = "off_mode"
  /\ chain_mode' = FALSE
  /\ cpc' = "off_dma"
  /\ UNCHANGED <<hwVars, dataVars, run_enabled, s_on, isrVars, pairVars, ppVars,
                 spVars, svc, cret, elapsed, asked, win, frame>>

OffDma ==                        \* dma0_deinit(), no pair move left pending
  /\ cpc = "off_dma"
  /\ armed' = FALSE /\ stat' = {} /\ ovr' = FALSE /\ irq' = {}
  /\ pair_req' = FALSE /\ pair_moving' = FALSE
  /\ s_on' = FALSE
  /\ cpc' = cret /\ cret' = "idle"
  /\ UNCHANGED <<trig, chan, dst, dataVars, run_enabled, chain_mode, isrVars,
                 pair_base, pair_frozen, ppVars, spVars, svc, elapsed, asked,
                 win, frame>>

(* capture_chain_start(), the DMA idle: counters, pair A, the trigger last *)
(* (ok: sccp1_start()'s answer).  Refused, it settles again.               *)
StreamOn ==
  /\ \/ cpc = "on"
     \/ Typed("on") /\ ~s_on
  /\ cpc' = "idle"
  /\ CountersClear
  /\ pair_base' = 0 /\ ready_off' = 0
  /\ pair_req' = FALSE /\ pair_moving' = FALSE /\ pair_frozen' = NoSlot
  /\ dst' = [c \in Chan |-> c]
  /\ chan' = 0 /\ stat' = {} /\ ovr' = FALSE /\ irq' = {}
  /\ \E ok \in BOOLEAN :
       /\ trig' = ok /\ armed' = ok
       /\ run_enabled' = ok /\ chain_mode' = ok /\ s_on' = ok
       /\ hwseq' = IF ok THEN Plus(blocks_done, 1) ELSE hwseq
       /\ stamp' = [s \in Slot |-> IF ok /\ s = 0 THEN hwseq' ELSE Torn]
  /\ done' = [s \in Slot |-> 0] /\ handed' = Torn
  /\ UNCHANGED <<blocks_done, sp_last_seq, sigproc_on, sigproc_busy,
                 svc, cret, elapsed, asked, win, frame>>

(* The route or the clock tree refuses before the stream is touched. *)
OnRefused ==
  /\ cpc = "on"
  /\ cpc' = "idle"
  /\ UNCHANGED <<hwVars, dataVars, runVars, isrVars, pairVars, ppVars, spVars,
                 svc, cret, elapsed, asked, win, frame>>

-----------------------------------------------------------------------------
(* "stream grab": chain_stream_grab_begin(), capture_pair_freeze(), the    *)
(* frame, chain_stream_grab_end().  With the stream off it changes nothing.*)

GrabBegin ==
  /\ Typed("grab") /\ s_on
  /\ cpc' = IF ChainActive THEN "freeze" ELSE "off_trig"
  /\ UNCHANGED <<hwVars, dataVars, runVars, isrVars, pairVars, ppVars, spVars,
                 svc, cret, elapsed, asked, win, frame>>

Freeze ==                        \* pair_frozen = PAIR_NONE
  /\ cpc = "freeze"
  /\ cpc' = IF ChainActive THEN "ask" ELSE "idle"
  /\ pair_frozen' = IF ChainActive THEN NoSlot ELSE pair_frozen
  /\ UNCHANGED <<hwVars, dataVars, runVars, isrVars, pair_base, pair_req,
                 pair_moving, ppVars, spVars, svc, cret, elapsed, asked, win,
                 frame>>

Ask ==
  /\ cpc = "ask"
  /\ pair_req' = TRUE
  /\ elapsed' = 0 /\ asked' = blocks_done
  /\ cpc' = "check"
  /\ UNCHANGED <<hwVars, dataVars, runVars, isrVars, pair_base, pair_moving,
                 pair_frozen, ppVars, spVars, svc, cret, win, frame>>

Check ==
  /\ cpc = "check"
  /\ cpc' = IF pair_frozen = NoSlot THEN "wait" ELSE "last"
  /\ UNCHANGED <<hwVars, dataVars, runVars, isrVars, pairVars, ppVars, spVars,
                 svc, cret, elapsed, asked, win, frame>>

TimedOutEarly ==                 \* mutant: three halves allowed, not four
  /\ cpc = "time" /\ elapsed >= WaitHalves - 1
  /\ pair_req' = FALSE
  /\ cpc' = "idle" /\ elapsed' = 0 /\ asked' = 0
  /\ UNCHANGED <<hwVars, dataVars, runVars, isrVars, pair_base, pair_moving,
                 pair_frozen, ppVars, spVars, svc, cret, win, frame>>

InTime ==
  /\ cpc = "time" /\ elapsed < WaitHalves + 2
  /\ cpc' = "check"
  /\ UNCHANGED <<hwVars, dataVars, runVars, isrVars, pairVars, ppVars, spVars,
                 svc, cret, elapsed, asked, win, frame>>

(* WaitHalves periods may hold one completion more or less. *)
TimedOut ==
  /\ cpc = "time" /\ elapsed >= WaitHalves
  /\ pair_req' = FALSE
  /\ cpc' = "idle" /\ elapsed' = 0 /\ asked' = 0
  /\ UNCHANGED <<hwVars, dataVars, runVars, isrVars, pair_base, pair_moving,
                 pair_frozen, ppVars, spVars, svc, cret, win, frame>>

Send ==                          \* frame_send() reads the next half
  /\ cpc = "send"
  /\ LET s == win + Len(frame)
     IN frame' = Append(frame, [num |-> stamp[s], done |-> done[s]])
  /\ cpc' = "poll"
  /\ UNCHANGED <<hwVars, dataVars, runVars, isrVars, pairVars, ppVars, spVars,
                 svc, cret, elapsed, asked, win>>

GrabEnd ==                       \* capture_pair_release()
  /\ cpc = "end"
  /\ pair_frozen' = NoSlot
  /\ cpc' = "idle" /\ asked' = 0 /\ win' = NoSlot /\ frame' = <<>>
  /\ UNCHANGED <<hwVars, dataVars, runVars, isrVars, pair_base, pair_req,
                 pair_moving, ppVars, spVars, svc, cret, elapsed>>

Grab == GrabBegin \/ Freeze \/ Ask \/ Check \/ InTime \/ TimedOut \/ Send \/ GrabEnd

-----------------------------------------------------------------------------
(* The state the boot leaves: nothing streams, no command runs. *)
Init ==
  /\ trig = FALSE /\ armed = FALSE /\ chan = 0 /\ dst = [c \in Chan |-> c]
  /\ stat = {} /\ ovr = FALSE /\ irq = {}
  /\ hwseq = 0 /\ stamp = [s \in Slot |-> Torn] /\ done = [s \in Slot |-> 0]
  /\ handed = Torn
  /\ run_enabled = FALSE /\ chain_mode = FALSE /\ s_on = FALSE
  /\ blocks_done = 0 /\ ready_off = 0 /\ late_service = 0
  /\ overrun_run = 0 /\ overrun_abort = FALSE
  /\ pair_base = 0 /\ pair_req = FALSE /\ pair_moving = FALSE
  /\ pair_frozen = NoSlot
  /\ seen_blocks = 0 /\ missed = 0
  /\ sp_fresh = TRUE /\ sp_last_seq = 0 /\ sigproc_on = FALSE
  /\ sigproc_busy = FALSE
  /\ svc = [x \in Ctx |-> IdleSvc]
  /\ cpc = "idle" /\ cret = "idle" /\ elapsed = 0 /\ asked = 0 /\ win = NoSlot
  /\ frame = <<>>

Off == OffTrigger \/ OffRun \/ OffMode \/ OffDma
Console == StreamOff \/ StreamOn \/ OnRefused \/ Sigproc \/ Clear \/ Off \/ Grab
Hardware == HwHalf \/ HwStall \/ Overrun

Next == Hardware \/ DmaIsr \/ (\E x \in Ctx : Service(x)) \/ Console

(* Interrupts are taken, a running command and the main loop go on, and    *)
(* time passes.  Nobody need type a command, and no overrun need happen.   *)
Fairness ==
  /\ WF_vars(HwHalf) /\ WF_vars(HwStall) /\ WF_vars(DmaIsr)
  /\ \A x \in Ctx : WF_vars(Service(x))
  /\ WF_vars(cpc # "idle" /\ (StreamOn \/ OnRefused \/ Off \/ Grab))

Spec == Init /\ [][Next]_vars
FairSpec == Spec /\ Fairness

-----------------------------------------------------------------------------
(* Properties. *)

(* The type invariant, by part of the state. *)
TypeHw ==
  /\ trig \in BOOLEAN /\ armed \in BOOLEAN /\ ovr \in BOOLEAN
  /\ chan \in Chan /\ dst \in [Chan -> Slot]
  /\ stat \subseteq Chan /\ irq \subseteq Chan

TypeData ==
  /\ hwseq \in Half \cup {Torn} /\ handed \in Half \cup {Torn}
  /\ stamp \in [Slot -> Half \cup {Torn}] /\ done \in [Slot -> 0 .. 2]

TypeIsr ==
  /\ run_enabled \in BOOLEAN /\ chain_mode \in BOOLEAN /\ s_on \in BOOLEAN
  /\ blocks_done \in Half /\ late_service \in Half /\ ready_off \in Slot
  /\ overrun_run \in 0 .. OverrunLimit /\ overrun_abort \in BOOLEAN
  /\ pair_req \in BOOLEAN /\ pair_moving \in BOOLEAN
  /\ pair_base \in {0, 2} /\ pair_frozen \in {0, 2, NoSlot}

TypeService ==
  /\ seen_blocks \in Half /\ missed \in Half /\ sp_last_seq \in Half
  /\ sp_fresh \in BOOLEAN /\ sigproc_on \in BOOLEAN /\ sigproc_busy \in BOOLEAN
  /\ svc \in [Ctx -> [pc : {"idle", "entry", "book", "read", "process"},
                      proc : BOOLEAN, off : Slot, num : Half \cup {Torn}]]

TypeCommand ==
  /\ cpc \in {"idle", "freeze", "ask", "check", "wait", "time", "last", "send",
              "poll", "end", "off_trig", "off_run", "off_mode", "off_dma", "on"}
  /\ cret \in {"idle", "on"} /\ elapsed \in 0 .. (WaitHalves + 2)
  /\ asked \in Half /\ win \in {0, 2, NoSlot}
  /\ frame \in Seq([num : Half \cup {Torn}, done : 0 .. 2]) /\ Len(frame) <= 2

TypeOK == TypeHw /\ TypeData /\ TypeIsr /\ TypeService /\ TypeCommand

(* A pair holds two halves that follow each other, neither of them spoilt. *)
Whole(pair) ==
  /\ stamp[pair] # Torn /\ stamp[pair + 1] # Torn
  /\ stamp[pair + 1] = Plus(stamp[pair], 1)

(* While "stream grab" sends a pair it stands still: neither channel is    *)
(* directed into it, and it is ping then pong, contiguous in time          *)
(* (capture_pair_freeze(), capture.h:237-241).                             *)
PairStill ==
  Sending => /\ dst[0] \notin {win, win + 1} /\ dst[1] \notin {win, win + 1}
             /\ Whole(win)

(* Both halves of the pair sent went through the processing exactly once   *)
(* when it is on, and not at all when it is off: the GUI never sees a pair *)
(* half raw, half processed (sigproc.h:36-46).                             *)
PairProcessed ==
  Sending => \A s \in {win, win + 1} : done[s] = IF sigproc_on THEN 1 ELSE 0

(* The block handed to sigproc_block() is the half its info.seq says, for  *)
(* as long as no further half has completed: however late the main loop    *)
(* is and wherever between its readings of blocks_done and ready_off an    *)
(* interrupt books one, the two agree if the half after that number is     *)
(* still being filled (capture.c:932-954) - as long as the interrupt       *)
(* itself has not been late: it then names the two halves it finds in the  *)
(* order of the channels, not of time.                                     *)
SeqExact ==
  \A x \in Ctx :
    svc[x].pc = "process" /\ hwseq = Plus(seen_blocks, 1) /\ late_service = 0
      => svc[x].num = seen_blocks

(* info.gap = 0 promises that this block follows, in this stream, the last *)
(* one processed (sigproc.h:77-82): the filter carries its state on.       *)
GapSound ==
  \A x \in Ctx :
    svc[x].pc = "process" /\ svc[x].proc /\ ~Gap => svc[x].num = Plus(handed, 1)

(* An interrupt that comes too late never spoils a pair in silence: the    *)
(* stream's late_service has moved when a frame is not whole               *)
(* (capture.c:496-505).                                                    *)
LateOrWhole == Sending /\ ~Whole(win) => late_service # 0

(* A grab of a stream that runs is not refused for want of the move: it    *)
(* comes within the time limit (acquisition.c:581-583).                    *)
NoFalseTimeout ==
  [][cpc = "time" /\ cpc' = "idle" => ~ChainActive \/ pair_frozen # NoSlot]_vars

(* A grab that was begun ends, however the stream goes on. *)
GrabEnds == (cpc = "freeze") ~> (cpc = "idle")

(* The grab implements SnapshotStream: from the move on, the pair held is   *)
(* the one completed last, and the frame is made of it and nothing else.   *)
Holding == (Asking \/ Sending) /\ pair_frozen # NoSlot

Snapshot == INSTANCE SnapshotStream WITH
  booked <- blocks_done,
  phase  <- IF Holding THEN "held"
            ELSE IF Asking \/ Sending THEN "asked" ELSE "idle",
  pair   <- IF Holding THEN <<stamp[pair_frozen], stamp[pair_frozen + 1]>>
            ELSE <<>>,
  sent   <- [i \in 1 .. Len(frame) |-> frame[i].num]

GrabIsSnapshot == Snapshot!Spec

(* A completed half is served while the next one is still to come. *)
EveryHalfServed == (Lag # 0) ~> (Lag = 0)
=============================================================================
