----------------------------- MODULE GrabReport -----------------------------
(***************************************************************************)
(* The counters a "stream grab" reports (core/acquisition.c,               *)
(* chain_stream_grab_begin()) and the transfer count of core/capture.c     *)
(* (capture_transfers()), read word by word while the DMA interrupt goes   *)
(* on moving them.                                                         *)
(*                                                                         *)
(* The move of the stream to the other pair is PairStream's subject: here  *)
(* a grab waits an arbitrary time for it.  The DMA interrupt (priority 4)  *)
(* preempts the command: no step of a command or of the main loop happens  *)
(* while it is pending.                                                    *)
(***************************************************************************)
EXTENDS Integers, FiniteSets

CONSTANTS
  HalfLen,       \* transfers of a half (half_len)
  OverrunLimit,  \* overruns in a run before the brake (500000 in the program)
  W,             \* uint32_t differences are modulo W
  MaxHalves,     \* bound: halves completed in a behaviour
  ReportCommands \* the console commands that may be typed

ASSUME GrabReportAssumption ==
  /\ {HalfLen, OverrunLimit, MaxHalves} \subseteq Nat \ {0}
  /\ W \in Nat /\ W > MaxHalves /\ W > OverrunLimit
  /\ ReportCommands \subseteq {"on", "off", "grab", "stream", "clear"}

VARIABLES
  trig,        \* SCCP1 runs: transfers happen
  run_enabled, \* channels armed, interrupts unmasked (they go down together
               \* here; the order is PairStream's)
  chan,        \* the channel that writes: its PCHEN is set
  cnt,         \* DMA0CNT, DMA1CNT: transfers left of each channel's half
  stat,        \* the channels whose DMAxSTAT.DONE is set
  ovr          \* DMAxSTAT.OVERRUN of either

VARIABLES
  blocks_done, done_events, late_service, dma_overrun, overrun_run,
  overrun_abort, seen_blocks, proc_missed,
  s_on,
  base,        \* g_grab_ov0, g_grab_la0, g_grab_mi0, g_grab_hv0, g_grab_xf0
  cpc,         \* where the running command is
  cret,        \* what follows capture_transfers()
  now          \* the values it has read so far

(* The model's own account since "stream on" or the last "clear":          *)
(* transfers made, what was counted, what the grabs have told, moved when  *)
(* a reading began, and whether "clear" was typed in this stream.          *)
VARIABLES moved, happened, reported, entry, cleared

hwVars  == <<trig, run_enabled, chan, cnt, stat, ovr>>
isrVars == <<blocks_done, done_events, late_service, dma_overrun, overrun_run,
             overrun_abort>>
ppVars  == <<seen_blocks, proc_missed>>
grabVars == <<s_on, base, cpc, cret, now>>
reportVars == <<hwVars, isrVars, ppVars, grabVars, moved, happened, reported, entry, cleared>>

Events == {"ov", "la", "mi", "hv"}
Reads  == Events \cup {"pp", "left", "de"}
Zero   == [e \in Events |-> 0]
CountUp(f, e, n) == [f EXCEPT ![e] = @ + n]
Delta(a, b) == (a - b) % W

-----------------------------------------------------------------------------
(* One ADC result, one transfer.  At the end of its half a channel reloads *)
(* its count, flags DONE and the other one goes on (13.4.11).  The         *)
(* interrupt is never so late that a channel completes a second half.      *)
HwTransfer ==
  /\ trig /\ run_enabled
  /\ blocks_done + Cardinality(stat) < MaxHalves                   \* bound
  /\ cnt[chan] = 1 => chan \notin stat
  /\ moved' = moved + 1
  /\ IF cnt[chan] > 1
       THEN /\ cnt' = [cnt EXCEPT ![chan] = @ - 1]
            /\ UNCHANGED <<chan, stat>>
       ELSE /\ cnt' = [cnt EXCEPT ![chan] = HalfLen]
            /\ stat' = stat \cup {chan}
            /\ chan' = 1 - chan
  /\ UNCHANGED <<trig, run_enabled, ovr, isrVars, ppVars, grabVars, happened,
                 reported, entry, cleared>>

HwOverrun ==
  /\ trig /\ run_enabled /\ ~ovr
  /\ ovr' = TRUE
  /\ UNCHANGED <<trig, run_enabled, chan, cnt, stat, isrVars, ppVars, grabVars,
                 moved, happened, reported, entry, cleared>>

DonesOfEither == Cardinality(stat)        \* mutant: either channel's DONE counts
Dones == IF 1 \in stat THEN 1 ELSE 0      \* the pong half ends the block

Pending == stat # {} \/ ovr

(* pp_service() and dma0_event(): both status words taken and cleared, the *)
(* brake before anything else is counted.                                  *)
DmaIsr ==
  /\ run_enabled /\ Pending
  /\ stat' = {} /\ ovr' = FALSE
  /\ dma_overrun' = dma_overrun + (IF ovr THEN 1 ELSE 0)
  /\ overrun_run' = overrun_run + (IF ovr THEN 1 ELSE 0)
  /\ LET late == IF stat = {0, 1} THEN 1 ELSE 0
         told_of == CountUp(happened, "ov", IF ovr THEN 1 ELSE 0)
     IN IF ovr /\ overrun_run' >= OverrunLimit
          THEN /\ run_enabled' = FALSE /\ overrun_abort' = TRUE
               /\ happened' = told_of
               /\ UNCHANGED <<blocks_done, done_events, late_service>>
          ELSE /\ late_service' = late_service + late
               /\ blocks_done' = blocks_done + Cardinality(stat)
               /\ done_events' = done_events + Dones
               /\ happened' = CountUp(CountUp(told_of, "la", late),
                                    "hv", Cardinality(stat))
               /\ UNCHANGED <<run_enabled, overrun_abort>>
  /\ UNCHANGED <<trig, chan, cnt, ppVars, grabVars, moved, reported, entry, cleared>>

Skipped == IF blocks_done = seen_blocks THEN 0 ELSE blocks_done - seen_blocks - 1

(* capture_service(): the halves passed over are missed. *)
Serve ==
  /\ run_enabled => ~Pending
  /\ proc_missed' = proc_missed + Skipped
  /\ happened' = CountUp(happened, "mi", Skipped)
  /\ seen_blocks' = blocks_done

Service ==
  /\ cpc \in {"idle", "freeze"}
  /\ Serve
  /\ UNCHANGED <<hwVars, isrVars, grabVars, moved, reported, entry, cleared>>

-----------------------------------------------------------------------------
(* The console commands. *)

At(pc) == cpc = pc /\ (run_enabled => ~Pending)

(* The words, each read on its own, in the order of acquisition.c:599-600, *)
(* capture.c:1065-1067 and dma.c:221-223.                                  *)
After == [ov |-> "la", la |-> "mi", mi |-> "hv", hv |-> "pp", pp |-> "left",
          left |-> "de"]

Value == [ov |-> dma_overrun, la |-> late_service, mi |-> proc_missed,
          hv |-> blocks_done, de |-> done_events,
          pp |-> chan,
          left |-> IF now.pp = 1 THEN cnt[1] ELSE cnt[0] + HalfLen]

Read(r) ==
  /\ At(r)
  /\ now' = [now EXCEPT ![r] = Value[r]]
  /\ cpc' = IF r = "de" THEN cret ELSE After[r]
  /\ entry' = IF r = "pp" THEN moved ELSE entry
  /\ UNCHANGED <<hwVars, isrVars, ppVars, s_on, base, cret, moved, happened,
                 reported, cleared>>

Forget == /\ now' = [r \in Reads |-> 0] /\ entry' = 0      \* locals, gone

Transfers == now.de * 2 * HalfLen + (2 * HalfLen - now.left)

CountersClear ==
  /\ dma_overrun' = 0 /\ overrun_run' = 0 /\ overrun_abort' = FALSE
  /\ late_service' = 0 /\ done_events' = 0
  /\ proc_missed' = 0 /\ seen_blocks' = blocks_done

Clear ==
  /\ "clear" \in ReportCommands /\ At("idle")
  /\ CountersClear
  /\ moved' = 0 /\ happened' = Zero /\ reported' = Zero /\ cleared' = TRUE
  /\ UNCHANGED <<hwVars, blocks_done, grabVars, entry>>

(* "stream on" with no stream running: counters_clear(), the channels set  *)
(* up afresh, the baselines 0.                                             *)
StreamOn ==
  /\ "on" \in ReportCommands /\ At("idle") /\ ~s_on
  /\ CountersClear
  /\ trig' = TRUE /\ run_enabled' = TRUE /\ s_on' = TRUE
  /\ chan' = 0 /\ cnt' = [c \in {0, 1} |-> HalfLen] /\ stat' = {} /\ ovr' = FALSE
  /\ base' = [e \in Events \cup {"xf"} |-> 0]
  /\ moved' = 0 /\ happened' = Zero /\ reported' = Zero /\ cleared' = FALSE
  /\ UNCHANGED <<blocks_done, cpc, cret, now, entry>>

(* "stream off", a grab that finds the brake fired, and the first thing    *)
(* "stream on" does: trigger, count, channels.                             *)
OffTriggerLate == trig                             \* mutant: left running
TriggerAfterOff == FALSE

StreamOff ==
  /\ At("idle") /\ s_on
  /\ \/ ReportCommands \cap {"on", "off"} # {}
     \/ "grab" \in ReportCommands /\ ~run_enabled
  /\ trig' = TriggerAfterOff
  /\ cpc' = "pp" /\ cret' = "settle"
  /\ UNCHANGED <<run_enabled, chan, cnt, stat, ovr, isrVars, ppVars, s_on, base,
                 now, moved, happened, reported, entry, cleared>>

Settle ==
  /\ At("settle")
  /\ run_enabled' = FALSE /\ stat' = {} /\ ovr' = FALSE
  /\ s_on' = FALSE
  /\ cpc' = "idle" /\ cret' = "idle" /\ Forget
  /\ UNCHANGED <<trig, chan, cnt, isrVars, ppVars, base, moved, happened, reported, cleared>>

StreamStatus ==                  \* "stream": chain_stream_state()
  /\ "stream" \in ReportCommands /\ At("idle") /\ s_on
  /\ cpc' = "pp" /\ cret' = "status"
  /\ UNCHANGED <<hwVars, isrVars, ppVars, s_on, base, now, moved, happened, reported,
                 entry, cleared>>

StatusShown ==
  /\ At("status")
  /\ cpc' = "idle" /\ cret' = "idle" /\ Forget
  /\ UNCHANGED <<hwVars, isrVars, ppVars, s_on, base, moved, happened, reported, cleared>>

GrabBegin ==
  /\ "grab" \in ReportCommands /\ At("idle") /\ s_on /\ run_enabled
  /\ cpc' = "freeze" /\ cret' = "report"
  /\ UNCHANGED <<hwVars, isrVars, ppVars, s_on, base, now, moved, happened, reported,
                 entry, cleared>>

GrabRefused ==                   \* the move did not come in time
  /\ At("freeze")
  /\ cpc' = "idle" /\ cret' = "idle"
  /\ UNCHANGED <<hwVars, isrVars, ppVars, s_on, base, now, moved, happened, reported,
                 entry, cleared>>

Frozen ==                        \* the pair is there; one more service
  /\ At("freeze") /\ Serve
  /\ cpc' = "ov"
  /\ UNCHANGED <<hwVars, isrVars, s_on, base, cret, now, moved, reported, entry, cleared>>

BaseReread == [e \in Events |-> Value[e]]          \* mutant: read a second time
NewBase == [e \in Events |-> now[e]]

Report ==
  /\ At("report")
  /\ reported' = [e \in Events |-> reported[e] + Delta(now[e], base[e])]
  /\ base' = [e \in Events \cup {"xf"} |->
                IF e = "xf" THEN Transfers ELSE NewBase[e]]
  /\ cpc' = "idle" /\ cret' = "idle" /\ Forget
  /\ UNCHANGED <<hwVars, isrVars, ppVars, s_on, moved, happened, cleared>>

-----------------------------------------------------------------------------
ReportInit ==
  /\ trig = FALSE /\ run_enabled = FALSE /\ chan = 0
  /\ cnt = [c \in {0, 1} |-> HalfLen] /\ stat = {} /\ ovr = FALSE
  /\ blocks_done = 0 /\ done_events = 0 /\ late_service = 0 /\ dma_overrun = 0
  /\ overrun_run = 0 /\ overrun_abort = FALSE /\ seen_blocks = 0 /\ proc_missed = 0
  /\ s_on = FALSE /\ base = [e \in Events \cup {"xf"} |-> 0]
  /\ cpc = "idle" /\ cret = "idle" /\ now = [r \in Reads |-> 0]
  /\ moved = 0 /\ happened = Zero /\ reported = Zero /\ entry = 0
  /\ cleared = FALSE

Console == \/ \E r \in Reads : Read(r)
           \/ Clear \/ StreamOn \/ StreamOff \/ Settle \/ StreamStatus \/ StatusShown
           \/ GrabBegin \/ GrabRefused \/ Frozen \/ Report

ReportNext == HwTransfer \/ HwOverrun \/ DmaIsr \/ Service \/ Console

ReportSpec == ReportInit /\ [][ReportNext]_reportVars

-----------------------------------------------------------------------------
(* Properties. *)

TypeOK ==
  /\ {trig, run_enabled, ovr, overrun_abort, s_on, cleared} \subseteq BOOLEAN
  /\ chan \in {0, 1} /\ cnt \in [{0, 1} -> 1 .. HalfLen] /\ stat \subseteq {0, 1}
  /\ {blocks_done, done_events, late_service, seen_blocks, proc_missed}
       \subseteq 0 .. MaxHalves
  /\ dma_overrun \in 0 .. OverrunLimit /\ overrun_run \in 0 .. OverrunLimit
  /\ cpc \in Reads \cup {"idle", "freeze", "settle", "report", "status"}
  /\ cret \in {"idle", "settle", "report", "status"}
  /\ now \in [Reads -> Nat] /\ base \in [Events \cup {"xf"} -> Nat]
  /\ moved \in Nat /\ entry \in Nat
  /\ happened \in [Events -> Nat] /\ reported \in [Events -> Nat]

Counter == [ov |-> dma_overrun, la |-> late_service, mi |-> proc_missed]

(* An overrun, a late interrupt or a missed half since "stream on" is told *)
(* by exactly one grab or is still to be told: the header's values are     *)
(* those since the previous grab (acquisition.h:220-223), also when the    *)
(* interrupt counts between two of the readings.  This is for a stream     *)
(* without a "clear", which sets the counters below their baselines.       *)
EachEventToldOnce ==
  cpc = "idle" /\ s_on /\ ~cleared =>
    \A e \in {"ov", "la", "mi"} :
      reported[e] + Delta(Counter[e], base[e]) = happened[e]

(* The same for halves=: what the grabs of a stream told is what the       *)
(* stream completed, "or since chain_stream_on(), for the first one".      *)
HalvesToldOnce ==
  cpc = "idle" /\ s_on =>
    reported["hv"] + Delta(blocks_done, base["hv"]) = happened["hv"]

CountRead == cpc \in {"report", "settle", "status"}         \* capture_transfers() is back

(* The transfer count is off by less than a pair, whatever the DMA does    *)
(* between the three readings it is made of.  ("clear" zeroes done_events: *)
(* a count from "stream on" ends there.)                                   *)
TransfersWithinAPair ==
  CountRead /\ ~overrun_abort /\ ~cleared =>
    /\ Transfers > entry - 2 * HalfLen
    /\ Transfers < moved + 2 * HalfLen

(* The count taken when a stream is stopped is exact: the trigger goes     *)
(* first, and nothing moves any more (capture.c:1070-1082).                *)
StopCountExact == cpc = "settle" /\ ~overrun_abort /\ ~cleared => Transfers = moved
=============================================================================
