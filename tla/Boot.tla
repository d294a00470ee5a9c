-------------------------------- MODULE Boot --------------------------------
(***************************************************************************)
(* main(): the start-up, its stop codes, the trap handler, the clock-fail  *)
(* interrupt and the main loop's own checks - over resets at any point,    *)
(* with the few words of persistent RAM that tell the next boot of the     *)
(* run before it (main.c, diag.c, clock.c, port_impl.c).                   *)
(***************************************************************************)
EXTENDS Integers, Sequences, FiniteSets

CONSTANTS
  Vectors,      \* trap vectors
  ChainStages,  \* stages of the chain test
  WaitLimit,    \* WAIT_LIMIT, in passes of the main loop
  MaxTraps      \* bound: traps since they were last reported

VARIABLES
  boot_stage, trap_seen, trap_vec, trap_stage, chain_mark,   \* persistent RAM
  at,           \* how far main() is in Startup; past it: the main loop
  mode,         \* "main", "seen" and "vec" (so far the trap record is written),
                \* "fail" and "trap" (about to report), "stopped"
  vec,          \* the trap handler's copy of VECNUM
  fail_code, gie, clkfail,            \* interrupts on, the clock-fail one too
  cpu, baud,    \* "frc", "pll2", "bfrc"; what the baud divider is for
  capturing,    \* "no", "burst" or "stream"
  idle_passes, early,                 \* early: a command ran before the set-up
  known, traps, last, unfinished,     \* history: what the next boot should say
  written,                            \* history: words of the last trap's record
  told                                \* what this boot has just said

persistent == <<boot_stage, trap_seen, trap_vec, trap_stage, chain_mark>>
clocks     == <<cpu, baud>>
control    == <<at, mode, vec, fail_code, gie, clkfail>>
ghosts     == <<known, traps, last, unfinished, written>>
bootVars   == <<persistent, control, clocks, capturing, idle_passes, early, ghosts,
                told>>

Startup ==
  <<"normalise", "led", "mark_1", "console", "mark_2", "tell_traps", "forget_traps",
    "tell_chain", "forget_chain", "mark_3", "park", "PLL1", "PLL2", "CLKGEN1", "CLKGEN6",
    "clkfail", "mark_4", "cli", "mark_5", "adc", "mark_6", "capture", "mark_7", "pll",
    "mark_8", "mark_9">>
Marks == <<"mark_1", "mark_2", "mark_3", "mark_4", "mark_5", "mark_6", "mark_7", "mark_8",
           "mark_9">>
Upcoming(name) == at <= Len(Startup) /\ Startup[at] = name
InMainLoop  == at > Len(Startup)
\* The last mark this run has passed.
Reached     == Cardinality({i \in 1..(at - 1) : \E n \in 1..9 : Startup[i] = Marks[n]})
Past(name)  == \E i \in 1..(at - 1) : Startup[i] = name

\* Which divider the clock the CPU is on calls for: FRC and BFRC run at
\* 8 MHz both (clock_cpu_on_pll()).
clock_cpu_on_pll == cpu = "pll2"
Divider(c) == IF c = "pll2" THEN "pll" ELSE "frc"

----------------------------------------------------------------------------
(* Where a run begins.  No start-up code clears persistent RAM: after a    *)
(* power-up it holds anything, and so after a reset amid Normalise's four  *)
(* stores, which come only after a power-up.                               *)
Fresh == /\ at = 1 /\ mode = "main" /\ vec = 0 /\ fail_code = 0 /\ gie = TRUE /\ clkfail = FALSE
         /\ cpu = "frc" /\ baud = "none" /\ capturing = "no" /\ idle_passes = 0
         /\ told = <<>> /\ early = FALSE
Garbage == {10} \cup 0..9
BootInit ==
  /\ Fresh
  /\ boot_stage \in {0, 3, 10} /\ trap_seen \in {0, 1} /\ trap_vec \in Vectors
  /\ trap_stage \in {3, 10} /\ chain_mark \in {0} \cup ChainStages
  /\ known = FALSE /\ traps = 0 /\ last = <<0, 0>> /\ unfinished = 0 /\ written = 3

\* A reset: the pin, "reset", a trap within the trap handler, or the
\* debugger's restart, which leaves the clocks as they are.
Reboot(c, b) ==
  /\ at' = 1 /\ mode' = "main" /\ vec' = 0 /\ fail_code' = 0 /\ gie' = TRUE /\ clkfail' = FALSE
  /\ cpu' = c /\ baud' = b /\ capturing' = "no" /\ idle_passes' = 0 /\ told' = <<>>
  /\ early' = FALSE
  /\ UNCHANGED <<persistent, ghosts>>
Reset   == Reboot("frc", "none")
Restart == Reboot(cpu, baud)

----------------------------------------------------------------------------
(* The start-up.                                                           *)
Step(name) == mode = "main" /\ Upcoming(name) /\ at' = at + 1
Others == UNCHANGED <<vec, capturing, idle_passes, early>>
Quiet == UNCHANGED <<mode, fail_code, gie>> /\ Others

Normalise ==
  /\ Step("normalise")
  /\ IF boot_stage > 9
     THEN boot_stage' = 0 /\ trap_seen' = 0 /\ trap_vec' = 0 /\ trap_stage' = 0
     ELSE UNCHANGED <<boot_stage, trap_seen, trap_vec, trap_stage>>
  /\ UNCHANGED <<chain_mark, clkfail, clocks, ghosts, told>> /\ Quiet

boot_mark ==
  /\ \E n \in 1..9 : Step(Marks[n]) /\ boot_stage' = n
  /\ UNCHANGED <<trap_seen, trap_vec, trap_stage, chain_mark, clkfail, clocks, ghosts, told>>
  /\ Quiet

\* led_init(), and the ADC clock's rate, which only warns.
Plain ==
  /\ Step("led") \/ Step("capture") \/ Step("pll")
  /\ UNCHANGED <<persistent, clkfail, clocks, ghosts, told>> /\ Quiet

\* The console on the FRC's divider, and after the clocks on the PLL's -
\* whatever the CPU runs on.
console_early_init ==
  /\ Step("console") /\ baud' = "frc"
  /\ UNCHANGED <<persistent, clkfail, cpu, ghosts, told>> /\ Quiet
cli_init ==
  /\ Step("cli") /\ baud' = "pll"
  /\ UNCHANGED <<persistent, clkfail, cpu, ghosts, told>> /\ Quiet

\* MUTANT: the stage this boot has reached instead of the trap's.
TellBootStage ==
  /\ Step("tell_traps")
  /\ told' = IF trap_seen # 0 THEN <<trap_seen, trap_vec, boot_stage>> ELSE <<>>
  /\ UNCHANGED <<persistent, clkfail, clocks, ghosts>> /\ Quiet
TellTraps ==
  /\ Step("tell_traps")
  /\ told' = IF trap_seen # 0 THEN <<trap_seen, trap_vec, trap_stage>> ELSE <<>>
  /\ UNCHANGED <<persistent, clkfail, clocks, ghosts>> /\ Quiet
ForgetTraps ==
  /\ Step("forget_traps") /\ trap_seen' = 0
  /\ traps' = 0
  /\ UNCHANGED <<boot_stage, trap_vec, trap_stage, chain_mark, clkfail, clocks, known, last,
                 unfinished, written, told>> /\ Quiet
TellChain ==
  /\ Step("tell_chain") /\ told' = <<chain_mark>>
  /\ UNCHANGED <<persistent, clkfail, clocks, ghosts>> /\ Quiet
ForgetChain ==
  /\ Step("forget_chain") /\ chain_mark' = 0
  /\ unfinished' = 0 /\ known' = TRUE
  /\ UNCHANGED <<boot_stage, trap_seen, trap_vec, trap_stage, clkfail, clocks, traps, last,
                 written, told>> /\ Quiet

fail(code) == mode' = "fail" /\ fail_code' = code /\ capturing' = "no"

\* Waits that are bounded: a clock that does not come is a stop code.
StopCode == [park |-> 3, PLL1 |-> 1, PLL2 |-> 2, CLKGEN1 |-> 3, CLKGEN6 |-> 4, adc |-> 5]
Waits ==
  /\ \E w \in {"park", "PLL1", "PLL2", "CLKGEN1", "CLKGEN6", "adc"} :
       LET to == CASE w = "CLKGEN1" -> "pll2"
                   [] w = "park" /\ clock_cpu_on_pll -> "frc"
                   [] OTHER -> cpu
       IN  \/ Step(w) /\ cpu' = to /\ UNCHANGED <<mode, fail_code, capturing>>
           \/ /\ mode = "main" /\ Upcoming(w) /\ (w = "park" => clock_cpu_on_pll)
              /\ cpu' \in {cpu, to} /\ fail(StopCode[w]) /\ UNCHANGED at
  /\ UNCHANGED <<persistent, vec, gie, clkfail, baud, ghosts, told, idle_passes, early>>

\* The clock-fail interrupt is enabled last, a pending one forgotten.
EnableClockFail ==
  /\ Step("clkfail") /\ clkfail' = TRUE
  /\ UNCHANGED <<persistent, clocks, ghosts, told>> /\ Quiet

----------------------------------------------------------------------------
(* The main loop and the console's commands, which the receive interrupt   *)
(* runs as soon as cli_init() has enabled it.                              *)
Fixed == UNCHANGED <<boot_stage, trap_seen, trap_vec, trap_stage, at, vec, gie, clkfail, clocks,
                     known, traps, last, written, told>>
Listening ==   \* the receive interrupt runs; a failure in main() leaves it on
  Past("cli") /\ (mode = "main" \/ (mode = "stopped" /\ fail_code \notin {9, 10}))
Command ==
  /\ Listening /\ capturing = "no" /\ chain_mark = 0
  /\ \/ capturing' \in {"burst", "stream"} /\ UNCHANGED <<chain_mark, unfinished>>
     \/ \E s \in ChainStages : chain_mark' = s /\ unfinished' = s /\ UNCHANGED capturing
  /\ early' = (early \/ ~Past("capture"))
  /\ Fixed /\ UNCHANGED <<mode, fail_code, idle_passes>>
ChainNext ==
  /\ Listening /\ chain_mark # 0
  /\ \E s \in {t \in ChainStages : t > chain_mark} \cup {0} : chain_mark' = s /\ unfinished' = s
  /\ Fixed /\ UNCHANGED <<mode, fail_code, capturing, idle_passes, early>>
CaptureStop ==
  /\ Listening /\ capturing # "no" /\ capturing' = "no"
  /\ Fixed /\ UNCHANGED <<mode, fail_code, chain_mark, unfinished, idle_passes, early>>

\* One pass: a half served, a burst that is silent for too long or whose
\* channel is off, or nothing to do.
MainPass ==
  /\ mode = "main" /\ InMainLoop
  /\ \/ idle_passes' = 0 /\ UNCHANGED <<mode, fail_code, capturing>>
     \/ /\ capturing = "burst"
        /\ \/ fail(8) /\ UNCHANGED idle_passes
           \/ idle_passes = WaitLimit /\ fail(6) /\ UNCHANGED idle_passes
           \/ idle_passes < WaitLimit /\ idle_passes' = idle_passes + 1
              /\ UNCHANGED <<mode, fail_code, capturing>>
  /\ Fixed /\ UNCHANGED <<chain_mark, unfinished, early>>

----------------------------------------------------------------------------
(* Stops.                                                                  *)
\* fail(): console_sync_baud(), the code and the dump, then the LED.
FailReport ==
  /\ mode = "fail" /\ mode' = "stopped"
  /\ baud' = Divider(cpu)
  /\ UNCHANGED <<persistent, at, vec, fail_code, gie, clkfail, cpu, capturing, idle_passes,
                 early, ghosts, told>>

\* _DefaultInterrupt(): the record first, a word at a time - a CPU trap may
\* come amid that of an interrupt nobody handles -, then capture_halt() and
\* GIE off.
Trap ==
  /\ mode # "trap" /\ gie /\ trap_seen < MaxTraps
  /\ mode' = "seen" /\ vec' \in Vectors
  /\ trap_seen' = trap_seen + 1
  /\ traps' = traps + 1 /\ last' = <<vec', Reached>> /\ written' = 1
  /\ UNCHANGED <<boot_stage, trap_vec, trap_stage, chain_mark, at, fail_code, gie, clkfail, clocks,
                 capturing, idle_passes, early, known, unfinished, told>>
TrapVec ==
  /\ mode = "seen" /\ mode' = "vec"
  /\ trap_vec' = vec /\ written' = 2
  /\ UNCHANGED <<boot_stage, trap_seen, trap_stage, chain_mark, at, vec, fail_code, gie, clkfail,
                 clocks, capturing, idle_passes, early, known, traps, last, unfinished, told>>
TrapStage ==
  /\ mode = "vec" /\ mode' = "trap"
  /\ trap_stage' = boot_stage /\ written' = 3
  /\ gie' = FALSE /\ capturing' = "no"
  /\ UNCHANGED <<boot_stage, trap_seen, trap_vec, chain_mark, at, vec, fail_code, clkfail, clocks,
                 idle_passes, early, known, traps, last, unfinished, told>>
\* The report only once the console can be there; console_force_up().
TrapReport ==
  /\ mode = "trap" /\ mode' = "stopped" /\ fail_code' = 9
  /\ baud' = IF boot_stage >= 2 THEN Divider(cpu) ELSE baud
  /\ UNCHANGED <<persistent, at, vec, gie, clkfail, cpu, capturing, idle_passes, early, ghosts,
                 told>>

\* The monitor moves the CPU to the backup FRC; the interrupt, where it is
\* enabled, halts the capture, forces the console up and stops with 10.  It
\* has no higher priority than the trap handler's.
ClockFail ==
  /\ cpu = "pll2" /\ cpu' = "bfrc"
  /\ IF gie /\ clkfail /\ mode \notin {"seen", "vec"}
     THEN baud' = Divider(cpu') /\ fail(10)
     ELSE UNCHANGED <<baud, mode, fail_code, capturing>>
  /\ UNCHANGED <<persistent, at, vec, gie, clkfail, idle_passes, early, ghosts, told>>

BootNext ==
  \/ Reset \/ Restart \/ Normalise \/ boot_mark \/ Plain \/ console_early_init \/ cli_init
  \/ TellTraps \/ ForgetTraps \/ TellChain \/ ForgetChain \/ Waits \/ EnableClockFail
  \/ Command \/ ChainNext \/ CaptureStop \/ MainPass
  \/ FailReport \/ Trap \/ TrapVec \/ TrapStage \/ TrapReport \/ ClockFail
BootSpec == BootInit /\ [][BootNext]_bootVars

----------------------------------------------------------------------------
\* Whatever ended the runs before - a reset, even amid the trap record or
\* its clearing, a second trap, a trap before the console was up -, the next
\* boot that gets so far tells how many traps there were since the last
\* report, the vector and the stage of the last one as far as its record was
\* written - a reset between two of its three stores leaves an earlier
\* trap's words in the rest -, and the chain stage that never ended; and
\* nothing else (diag.c: "the next boot can still be told what happened";
\* main.c: "reported once").  Not after a power-up, which leaves nothing to
\* go by until the record is cleared once; and a trap before boot_mark(1) is
\* told with the stage the run before it had reached.
LastRunTold ==
  mode = "main" /\ known =>
    /\ Upcoming("forget_traps") =>
         IF traps = 0 THEN told = <<>>
         ELSE /\ told[1] = traps
              /\ written >= 2 => told[2] = last[1]
              /\ written = 3 /\ last[2] # 0 => told[3] = last[2]
    /\ Upcoming("forget_chain") => told = <<unfinished>>

\* No command runs before the measurement is set up (cli.c:1090-1091, the
\* receive interrupt is "enabled last, so that nothing typed early runs a
\* command before the measurement is set up").
CommandsAfterSetup == ~early
=============================================================================
