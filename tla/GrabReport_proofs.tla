------------------------- MODULE GrabReport_proofs -------------------------
(***************************************************************************)
(* That the grabs of a stream tell every overrun, late interrupt and       *)
(* missed half exactly once: proved for any length of a half, any overrun  *)
(* limit and counter width, and the interrupt between any two readings.    *)
(* That the transfer count is right to within a pair, and exact when the   *)
(* stream is stopped.                                                      *)
(***************************************************************************)
EXTENDS GrabReport, FiniteSetTheorems, TLAPS

Told == {"ov", "la", "mi"}

CountTypes ==
  /\ {dma_overrun, overrun_run, late_service, proc_missed, seen_blocks, blocks_done,
      done_events} \subseteq Nat
  /\ stat \subseteq {0, 1} /\ chan \in {0, 1} /\ cnt \in [{0, 1} -> Int]
  /\ run_enabled \in BOOLEAN /\ ovr \in BOOLEAN /\ cleared \in BOOLEAN
  /\ reported \in [Events -> Int] /\ happened \in [Events -> Int]
  /\ base \in [Events \cup {"xf"} -> Int] /\ now \in [Reads -> Int]

(* No counter reaches the width: the brake stops the overruns, and the     *)
(* late and the missed ones are fewer than the halves.                     *)
BoundInv ==
  /\ blocks_done + Cardinality(stat) <= MaxHalves
  /\ late_service <= blocks_done
  /\ proc_missed <= seen_blocks /\ seen_blocks <= blocks_done
  /\ dma_overrun = overrun_run /\ overrun_run <= OverrunLimit
  /\ run_enabled => overrun_run < OverrunLimit

(* What is told and what is still to be told is what happened.             *)
BalanceInv ==
  ~cleared => \A e \in Told :
    /\ reported[e] + Counter[e] - base[e] = happened[e]
    /\ 0 <= base[e] /\ base[e] <= Counter[e]

(* A word that a grab has read lies between its baseline and the counter.  *)
Reporting == cpc = "report" \/ (cpc \in {"pp", "left", "de"} /\ cret = "report")
HasRead(e) == \/ Reporting \/ cpc = "hv"
              \/ cpc = "mi" /\ e # "mi"
              \/ cpc = "la" /\ e = "ov"
ReadingInv ==
  /\ cret \in {"idle", "settle", "report", "status"}
  /\ cpc \in {"freeze", "ov", "la", "mi", "hv", "report"} => cret = "report"
  /\ ~cleared => \A e \in Told : HasRead(e) => base[e] <= now[e] /\ now[e] <= Counter[e]

ReportInv == CountTypes /\ BoundInv /\ BalanceInv /\ ReadingInv

readVars == <<reported, base, cleared, cpc, cret, now>>
countVars == <<dma_overrun, overrun_run, late_service, proc_missed, seen_blocks, blocks_done,
               done_events, stat, chan, cnt, run_enabled, ovr, happened>>

(* How many half flags can be set.                                         *)
LEMMA StatCount ==
  /\ \A S \in SUBSET {0, 1} :
       /\ Cardinality(S) \in Nat
       /\ S = {0, 1} => Cardinality(S) = 2
       /\ S = {} <=> Cardinality(S) = 0
  /\ \A S \in SUBSET {0, 1}, c \in {0, 1} : Cardinality(S \cup {c}) <= Cardinality(S) + 1
<1>1. Cardinality({0, 1}) = 2 /\ IsFiniteSet({0, 1})
  <2>1. IsFiniteSet({0}) /\ Cardinality({0}) = 1
    BY FS_Singleton
  <2>2. {0, 1} = {0} \cup {1} /\ 1 \notin {0}
    OBVIOUS
  <2> QED
    BY <2>1, <2>2, FS_AddElement
<1>2. ASSUME NEW S \in SUBSET {0, 1} PROVE IsFiniteSet(S) /\ Cardinality(S) \in Nat
  BY <1>1, FS_Subset, FS_CardinalityType
<1>3. ASSUME NEW S \in SUBSET {0, 1} PROVE S = {} <=> Cardinality(S) = 0
  BY <1>2, FS_EmptySet
<1>4. ASSUME NEW S \in SUBSET {0, 1}, NEW c \in {0, 1}
      PROVE  Cardinality(S \cup {c}) <= Cardinality(S) + 1
  <2>1. CASE c \in S
    <3>1. S \cup {c} = S
      BY <2>1
    <3> QED
      BY <1>2, <3>1
  <2>2. CASE c \notin S
    BY <1>2, <2>2, FS_AddElement
  <2> QED
    BY <2>1, <2>2
<1> QED
  BY <1>1, <1>2, <1>3, <1>4

(* At boot nothing has happened and nothing is told.                       *)
LEMMA ReportStart == ReportInit => ReportInv
<1> SUFFICES ASSUME ReportInit PROVE ReportInv
  OBVIOUS
<1>1. Cardinality(stat) = 0
  BY StatCount DEF ReportInit
<1>2. CountTypes
  <2>1. HalfLen \in Int /\ reported = Zero /\ happened = Zero
    BY GrabReportAssumption DEF ReportInit
  <2>2. reported \in [Events -> Int] /\ happened \in [Events -> Int]
    BY <2>1 DEF Zero
  <2>3. base \in [Events \cup {"xf"} -> Int] /\ now \in [Reads -> Int]
    <3>1. base = [e \in Events \cup {"xf"} |-> 0] /\ now = [r \in Reads |-> 0]
      BY DEF ReportInit
    <3> QED
      BY <3>1
  <2>4. cnt \in [{0, 1} -> Int]
    BY <2>1 DEF ReportInit
  <2>5. /\ {dma_overrun, overrun_run, late_service, proc_missed, seen_blocks, blocks_done,
            done_events} \subseteq Nat
        /\ stat \subseteq {0, 1} /\ chan \in {0, 1}
    BY DEF ReportInit
  <2>6. run_enabled \in BOOLEAN /\ ovr \in BOOLEAN /\ cleared \in BOOLEAN
    BY DEF ReportInit
  <2> QED
    BY <2>2, <2>3, <2>4, <2>5, <2>6 DEF CountTypes
<1>3. BoundInv
  BY <1>1, GrabReportAssumption DEF ReportInit, BoundInv
<1>4. BalanceInv
  BY DEF ReportInit, BalanceInv, Told, Zero, Counter, Events
<1>5. ReadingInv
  BY DEF ReportInit, ReadingInv, Told, HasRead, Reporting
<1> QED
  BY <1>2, <1>3, <1>4, <1>5 DEF ReportInv

(* Steps that count nothing and leave the reading where it is.             *)
LEMMA ReportSame ==
  ASSUME ReportInv, UNCHANGED <<readVars, countVars>> PROVE ReportInv'
<1>1. CountTypes'
  BY DEF ReportInv, CountTypes, readVars, countVars
<1>2. BoundInv'
  BY DEF ReportInv, BoundInv, countVars
<1>3. BalanceInv' /\ ReadingInv'
  BY DEF ReportInv, BalanceInv, ReadingInv, Counter, HasRead, Reporting, readVars, countVars
<1> QED
  BY <1>1, <1>2, <1>3 DEF ReportInv

(* The hardware counts nothing that a grab tells.                          *)
LEMMA ReportHardware ==
  ASSUME ReportInv, HwTransfer \/ HwOverrun PROVE ReportInv'
<1>1. /\ UNCHANGED <<readVars, run_enabled, dma_overrun, overrun_run, late_service, proc_missed,
                     seen_blocks, blocks_done, done_events, happened>>
      /\ ovr' \in BOOLEAN
  BY DEF HwTransfer, HwOverrun, isrVars, ppVars, grabVars, readVars, ReportInv, CountTypes
<1>2. /\ stat' \subseteq {0, 1} /\ chan' \in {0, 1} /\ cnt' \in [{0, 1} -> Int]
      /\ blocks_done + Cardinality(stat') <= MaxHalves
  <2>1. stat \in SUBSET {0, 1} /\ chan \in {0, 1} /\ cnt \in [{0, 1} -> Int] /\ blocks_done \in Nat
        /\ HalfLen \in Int /\ MaxHalves \in Nat /\ blocks_done + Cardinality(stat) <= MaxHalves
    BY GrabReportAssumption DEF ReportInv, CountTypes, BoundInv
  <2>2. CASE HwOverrun
    BY <2>1, <2>2 DEF HwOverrun
  <2>3. CASE HwTransfer
    <3>1. /\ blocks_done + Cardinality(stat) < MaxHalves
          /\ stat' = stat \/ stat' = stat \cup {chan}
      BY <2>3 DEF HwTransfer
    <3>2. /\ chan' = chan \/ chan' = 1 - chan
          /\ cnt' = [cnt EXCEPT ![chan] = cnt[chan] - 1] \/ cnt' = [cnt EXCEPT ![chan] = HalfLen]
      BY <2>3 DEF HwTransfer
    <3>3. blocks_done + Cardinality(stat') <= MaxHalves
      <4>1. Cardinality(stat) \in Nat /\ Cardinality(stat \cup {chan}) \in Nat
            /\ Cardinality(stat \cup {chan}) <= Cardinality(stat) + 1
        BY <2>1, StatCount
      <4> QED
        BY <2>1, <3>1, <4>1
    <3>4. stat' \subseteq {0, 1}
      BY <2>1, <3>1
    <3> QED
      BY <2>1, <3>2, <3>3, <3>4
  <2> QED
    BY <2>2, <2>3
<1>3. CountTypes'
  BY <1>1, <1>2 DEF ReportInv, CountTypes, readVars
<1>4. BoundInv'
  BY <1>1, <1>2 DEF ReportInv, BoundInv
<1>5. BalanceInv' /\ ReadingInv'
  BY <1>1 DEF ReportInv, BalanceInv, ReadingInv, Counter, HasRead, Reporting, readVars
<1> QED
  BY <1>3, <1>4, <1>5 DEF ReportInv

(* Steps that count: an event is added to its counter and to what happened.*)
LEMMA ReportCounts ==
  ASSUME ReportInv, UNCHANGED readVars, CountTypes', BoundInv',
         \A e \in Told : /\ Counter'[e] >= Counter[e]
                         /\ happened'[e] - happened[e] = Counter'[e] - Counter[e]
  PROVE  ReportInv'
<1>1. \A e \in Told : /\ reported[e] \in Int /\ base[e] \in Int /\ now[e] \in Int
                       /\ Counter[e] \in Int /\ Counter'[e] \in Int
                       /\ happened[e] \in Int /\ happened'[e] \in Int
  BY DEF ReportInv, CountTypes, Told, Counter, Events, Reads
<1>2. BalanceInv'
  <2> SUFFICES ASSUME ~cleared', NEW e \in Told
               PROVE  /\ reported'[e] + Counter'[e] - base'[e] = happened'[e]
                      /\ 0 <= base'[e] /\ base'[e] <= Counter'[e]
    BY DEF BalanceInv
  <2>1. ~cleared /\ reported' = reported /\ base' = base
    BY DEF readVars
  <2>2. /\ reported[e] + Counter[e] - base[e] = happened[e]
        /\ 0 <= base[e] /\ base[e] <= Counter[e]
    BY <2>1 DEF ReportInv, BalanceInv
  <2>3. reported'[e] = reported[e] /\ base'[e] = base[e]
    BY <2>1
  <2>4. Counter'[e] >= Counter[e] /\ happened'[e] - happened[e] = Counter'[e] - Counter[e]
    OBVIOUS
  <2> QED
    BY <1>1, <2>2, <2>3, <2>4
<1>3. ReadingInv'
  <2>1. UNCHANGED <<cpc, cret, cleared, base, now>>
    BY DEF readVars
  <2>2. ASSUME ~cleared', NEW e \in Told, HasRead(e)'
        PROVE  base'[e] <= now'[e] /\ now'[e] <= Counter'[e]
    <3>1. base[e] <= now[e] /\ now[e] <= Counter[e]
      BY <2>1, <2>2 DEF ReportInv, ReadingInv, HasRead, Reporting
    <3> QED
      BY <1>1, <2>1, <3>1
  <2> QED
    BY <2>1, <2>2 DEF ReportInv, ReadingInv
<1> QED
  BY <1>2, <1>3 DEF ReportInv

(* dma0_event() counts what it finds: an overrun, a late interrupt.        *)
LEMMA ReportIsr ==
  ASSUME ReportInv, DmaIsr PROVE ReportInv'
<1> DEFINE o == IF ovr THEN 1 ELSE 0
           l == IF stat = {0, 1} THEN 1 ELSE 0
           n == Cardinality(stat)
           braked == ovr /\ overrun_run' >= OverrunLimit
<1>1. /\ run_enabled /\ stat' = {} /\ ovr' = FALSE
      /\ dma_overrun' = dma_overrun + o /\ overrun_run' = overrun_run + o
      /\ IF braked
         THEN /\ run_enabled' = FALSE /\ happened' = CountUp(happened, "ov", o)
              /\ UNCHANGED <<blocks_done, done_events, late_service>>
         ELSE /\ late_service' = late_service + l /\ blocks_done' = blocks_done + n
              /\ done_events' = done_events + Dones
              /\ happened' = CountUp(CountUp(CountUp(happened, "ov", o), "la", l), "hv", n)
              /\ run_enabled' = run_enabled
      /\ UNCHANGED <<readVars, seen_blocks, proc_missed, chan, cnt>>
  BY DEF DmaIsr, ppVars, grabVars, readVars
<1>2. /\ o \in {0, 1} /\ l \in {0, 1} /\ n \in Nat /\ l <= n /\ Dones \in Nat
      /\ ovr => o = 1
      /\ ~ovr => o = 0
  BY StatCount DEF ReportInv, CountTypes, Dones
<1>3. Cardinality({}) = 0
  BY StatCount
<1> HIDE DEF o, l, n, braked
<1>4. /\ happened \in [Events -> Int]
      /\ happened' \in [Events -> Int]
      /\ happened'["ov"] = happened["ov"] + o /\ happened'["mi"] = happened["mi"]
      /\ happened'["la"] = IF braked THEN happened["la"] ELSE happened["la"] + l
  <2>1. happened \in [Events -> Int]
    BY DEF ReportInv, CountTypes
  <2>2. CASE braked
    <3>1. happened' = [happened EXCEPT !["ov"] = happened["ov"] + o]
      BY <1>1, <2>2 DEF CountUp
    <3> QED
      BY <1>2, <2>1, <2>2, <3>1 DEF Events
  <2>3. CASE ~braked
    <3> DEFINE h1 == [happened EXCEPT !["ov"] = happened["ov"] + o]
               h2 == [h1 EXCEPT !["la"] = h1["la"] + l]
               h3 == [h2 EXCEPT !["hv"] = h2["hv"] + n]
    <3>1. happened' = h3
      BY <1>1, <2>3 DEF CountUp
    <3>2. h1 \in [Events -> Int] /\ h1["ov"] = happened["ov"] + o /\ h1["la"] = happened["la"]
          /\ h1["mi"] = happened["mi"]
      BY <1>2, <2>1 DEF Events
    <3> HIDE DEF h1
    <3>3. h2 \in [Events -> Int] /\ h2["ov"] = h1["ov"] /\ h2["la"] = h1["la"] + l
          /\ h2["mi"] = h1["mi"]
      BY <1>2, <3>2 DEF Events
    <3> HIDE DEF h2
    <3>4. h3 \in [Events -> Int] /\ h3["ov"] = h2["ov"] /\ h3["la"] = h2["la"]
          /\ h3["mi"] = h2["mi"]
      BY <1>2, <3>3 DEF Events
    <3> HIDE DEF h3
    <3> QED
      BY <2>1, <2>3, <3>1, <3>2, <3>3, <3>4
  <2> QED
    BY <2>2, <2>3
<1>5. CountTypes'
  <2>1. /\ {dma_overrun, overrun_run, late_service, blocks_done, done_events} \subseteq Nat
        /\ run_enabled \in BOOLEAN
    BY DEF ReportInv, CountTypes
  <2>2. {dma_overrun', overrun_run', late_service', blocks_done', done_events'} \subseteq Nat
    <3>1. dma_overrun' \in Nat /\ overrun_run' \in Nat
      BY <1>1, <1>2, <2>1
    <3>2. late_service' \in Nat /\ blocks_done' \in Nat /\ done_events' \in Nat
      <4>1. CASE braked
        BY <1>1, <2>1, <4>1
      <4>2. CASE ~braked
        BY <1>1, <1>2, <2>1, <4>2
      <4> QED
        BY <4>1, <4>2
    <3> QED
      BY <3>1, <3>2
  <2>3. run_enabled' \in BOOLEAN
    BY <1>1, <2>1
  <2> QED
    BY <1>1, <1>4, <2>2, <2>3 DEF ReportInv, CountTypes, readVars
<1>6. BoundInv'
  <2>1. /\ {dma_overrun, overrun_run, late_service, proc_missed, seen_blocks, blocks_done} \subseteq Nat
        /\ OverrunLimit \in Nat /\ MaxHalves \in Nat
        /\ blocks_done + n <= MaxHalves /\ overrun_run < OverrunLimit
    BY <1>1, GrabReportAssumption DEF ReportInv, CountTypes, BoundInv, n
  <2>2. CASE braked
    BY <1>1, <1>2, <1>3, <2>1, <2>2 DEF ReportInv, BoundInv
  <2>3. CASE ~braked
    <3>1. overrun_run' < OverrunLimit
      BY <1>1, <1>2, <2>1, <2>3 DEF braked
    <3>2. /\ late_service' = late_service + l /\ blocks_done' = blocks_done + n
          /\ dma_overrun' = overrun_run'
      BY <1>1, <2>3 DEF ReportInv, BoundInv
    <3>3. /\ late_service <= blocks_done /\ proc_missed <= seen_blocks
          /\ seen_blocks <= blocks_done
      BY DEF ReportInv, BoundInv
    <3>4. late_service' <= blocks_done' /\ seen_blocks <= blocks_done' /\ blocks_done' + 0 <= MaxHalves
      BY <1>2, <2>1, <3>2, <3>3
    <3>5. overrun_run' \in Nat
      BY <1>1, <1>2, <2>1
    <3> QED
      BY <1>1, <1>3, <2>1, <3>1, <3>2, <3>3, <3>4, <3>5 DEF BoundInv
  <2> QED
    BY <2>2, <2>3
<1>7. ASSUME NEW e \in Told
      PROVE  /\ Counter'[e] >= Counter[e]
             /\ happened'[e] - happened[e] = Counter'[e] - Counter[e]
  <2>1. /\ dma_overrun \in Nat /\ late_service \in Nat /\ proc_missed \in Nat
        /\ happened["ov"] \in Int /\ happened["la"] \in Int /\ happened["mi"] \in Int
    BY <1>4 DEF ReportInv, CountTypes, Events
  <2>2. /\ dma_overrun' = dma_overrun + o /\ proc_missed' = proc_missed
        /\ late_service' = IF braked THEN late_service ELSE late_service + l
    BY <1>1
  <2> QED
    BY <1>2, <1>4, <2>1, <2>2 DEF Told, Counter
<1> QED
  BY <1>1, <1>5, <1>6, <1>7, ReportCounts

(* capture_service() adds to proc_missed what it passes over.              *)
LEMMA ServeCounts ==
  ASSUME ReportInv, Serve, UNCHANGED <<dma_overrun, overrun_run, late_service, blocks_done,
           done_events, stat, chan, cnt, run_enabled, ovr, reported, base, cleared, now>>
  PROVE  /\ CountTypes' /\ BoundInv'
         /\ \A e \in Told : /\ Counter'[e] >= Counter[e]
                            /\ happened'[e] - happened[e] = Counter'[e] - Counter[e]
<1>1. /\ proc_missed' = proc_missed + Skipped /\ seen_blocks' = blocks_done
      /\ happened' = [happened EXCEPT !["mi"] = happened["mi"] + Skipped]
  BY DEF Serve, CountUp
<1>2. /\ proc_missed \in Nat /\ seen_blocks \in Nat /\ blocks_done \in Nat
      /\ proc_missed <= seen_blocks /\ seen_blocks <= blocks_done
      /\ happened \in [Events -> Int]
  BY DEF ReportInv, CountTypes, BoundInv
<1>3. Skipped \in Nat /\ proc_missed + Skipped <= blocks_done
  BY <1>2 DEF Skipped
<1>4. /\ happened' \in [Events -> Int] /\ happened'["mi"] = happened["mi"] + Skipped
      /\ happened'["ov"] = happened["ov"] /\ happened'["la"] = happened["la"]
      /\ happened["mi"] \in Int /\ happened["ov"] \in Int /\ happened["la"] \in Int
  BY <1>1, <1>2, <1>3 DEF Events
<1>5. proc_missed' \in Nat /\ seen_blocks' \in Nat
  BY <1>1, <1>2, <1>3
<1>6. CountTypes'
  BY <1>4, <1>5 DEF ReportInv, CountTypes
<1>7. BoundInv'
  BY <1>1, <1>2, <1>3 DEF ReportInv, BoundInv
<1>8. ASSUME NEW e \in Told
      PROVE  /\ Counter'[e] >= Counter[e]
             /\ happened'[e] - happened[e] = Counter'[e] - Counter[e]
  <2>1. /\ dma_overrun' = dma_overrun /\ late_service' = late_service
        /\ dma_overrun \in Nat /\ late_service \in Nat
    BY DEF ReportInv, CountTypes
  <2> QED
    BY <1>1, <1>2, <1>3, <1>4, <2>1 DEF Told, Counter
<1> QED
  BY <1>6, <1>7, <1>8

(* capture_service() from the main loop.                                   *)
LEMMA ReportService ==
  ASSUME ReportInv, Service PROVE ReportInv'
<1>1. /\ Serve /\ UNCHANGED <<dma_overrun, overrun_run, late_service, blocks_done, done_events,
                             stat, chan, cnt, run_enabled, ovr, reported, base, cleared, now>>
      /\ UNCHANGED readVars
  BY DEF Service, hwVars, isrVars, grabVars, readVars
<1> QED
  BY <1>1, ServeCounts, ReportCounts

(* The words of a grab are in place; the reading begins.                   *)
LEMMA ReportFrozen ==
  ASSUME ReportInv, Frozen PROVE ReportInv'
<1>1. /\ Serve /\ UNCHANGED <<dma_overrun, overrun_run, late_service, blocks_done, done_events,
                             stat, chan, cnt, run_enabled, ovr, reported, base, cleared, now>>
      /\ cpc = "freeze" /\ cpc' = "ov" /\ cret' = cret
  BY DEF Frozen, At, hwVars, isrVars, readVars
<1>2. /\ CountTypes' /\ BoundInv'
      /\ \A e \in Told : /\ Counter'[e] >= Counter[e]
                         /\ happened'[e] - happened[e] = Counter'[e] - Counter[e]
  BY <1>1, ServeCounts
<1>3. \A e \in Told : /\ reported[e] \in Int /\ base[e] \in Int
                       /\ Counter[e] \in Int /\ Counter'[e] \in Int
                       /\ happened[e] \in Int /\ happened'[e] \in Int
  BY <1>2 DEF ReportInv, CountTypes, Told, Counter, Events
<1>4. BalanceInv'
  <2> SUFFICES ASSUME ~cleared', NEW e \in Told
               PROVE  /\ reported'[e] + Counter'[e] - base'[e] = happened'[e]
                      /\ 0 <= base'[e] /\ base'[e] <= Counter'[e]
    BY DEF BalanceInv
  <2>1. reported'[e] = reported[e] /\ base'[e] = base[e] /\ ~cleared
    BY <1>1
  <2>2. /\ reported[e] + Counter[e] - base[e] = happened[e]
        /\ 0 <= base[e] /\ base[e] <= Counter[e]
    BY <2>1 DEF ReportInv, BalanceInv
  <2>3. Counter'[e] >= Counter[e] /\ happened'[e] - happened[e] = Counter'[e] - Counter[e]
    BY <1>2
  <2> QED
    BY <1>3, <2>1, <2>2, <2>3
<1>5. ReadingInv'
  BY <1>1 DEF ReportInv, ReadingInv, HasRead, Reporting
<1> QED
  BY <1>2, <1>4, <1>5 DEF ReportInv

(* One word is read.                                                       *)
LEMMA ReportRead ==
  ASSUME ReportInv, NEW r \in Reads, Read(r) PROVE ReportInv'
<1>1. /\ cpc = r /\ now' = [now EXCEPT ![r] = Value[r]]
      /\ cpc' = IF r = "de" THEN cret ELSE After[r]
      /\ UNCHANGED <<countVars, reported, base, cleared, cret>>
  BY DEF Read, At, hwVars, isrVars, ppVars, countVars
<1>2. Value[r] \in Int /\ now \in [Reads -> Int]
  <2>1. now \in [Reads -> Int] /\ cnt[0] \in Int /\ cnt[1] \in Int /\ chan \in Int
        /\ {dma_overrun, late_service, proc_missed, blocks_done, done_events} \subseteq Int
        /\ HalfLen \in Int
    BY GrabReportAssumption DEF ReportInv, CountTypes
  <2>2. (IF now.pp = 1 THEN cnt[1] ELSE cnt[0] + HalfLen) \in Int
    BY <2>1
  <2> QED
    BY <2>1, <2>2 DEF Value, Reads, Events
<1>3. CountTypes'
  BY <1>1, <1>2 DEF ReportInv, CountTypes, countVars
<1>4. BoundInv' /\ BalanceInv'
  BY <1>1 DEF ReportInv, BoundInv, BalanceInv, Counter, countVars
<1>5. ReadingInv'
  <2>1. Counter' = Counter
    BY <1>1 DEF Counter, countVars
  <2>2. \/ r = "ov" /\ cpc' = "la"
        \/ r = "la" /\ cpc' = "mi"
        \/ r = "mi" /\ cpc' = "hv"
        \/ r = "hv" /\ cpc' = "pp"
        \/ r = "pp" /\ cpc' = "left"
        \/ r = "left" /\ cpc' = "de"
        \/ r = "de" /\ cpc' = cret
    BY <1>1 DEF After, Reads, Events
  <2>4. /\ cret' = cret /\ cret \in {"idle", "settle", "report", "status"}
        /\ cpc \in {"ov", "la", "mi", "hv"} => cret = "report"
    BY <1>1 DEF ReportInv, ReadingInv
  <2>3. ASSUME ~cleared', NEW e \in Told, HasRead(e)'
        PROVE  base'[e] <= now'[e] /\ now'[e] <= Counter'[e]
    <3>1. CASE e = r
      <4>1. now'[e] = Counter[e]
        BY <1>1, <1>2, <3>1 DEF Value, Counter, Told
      <4>2. base[e] <= Counter[e] /\ Counter[e] \in Int
        BY <1>1, <2>3 DEF ReportInv, BalanceInv, CountTypes, Counter, Told
      <4> QED
        BY <1>1, <2>1, <4>1, <4>2
    <3>2. CASE e # r
      <4>1. now'[e] = now[e]
        BY <1>1, <1>2, <3>2 DEF Told, Reads, Events
      <4>2. HasRead(e)
        BY <1>1, <2>2, <2>3, <2>4, <3>2 DEF HasRead, Reporting, Told
      <4> QED
        BY <1>1, <2>1, <2>3, <4>1, <4>2 DEF ReportInv, ReadingInv
    <3> QED
      BY <3>1, <3>2
  <2> QED
    BY <1>1, <2>2, <2>3, <2>4 DEF ReadingInv
<1> QED
  BY <1>3, <1>4, <1>5 DEF ReportInv

LEMMA SmallDelta ==
  ASSUME ReportInv, NEW a \in Int, NEW e \in Told, ~cleared, base[e] <= a, a <= Counter[e]
  PROVE  Delta(a, base[e]) = a - base[e]
<1>1. base[e] \in Int /\ 0 <= base[e] /\ Counter[e] \in Int
  BY DEF ReportInv, CountTypes, BalanceInv, Told, Counter, Events
<1>2. Counter[e] < W
  <2>1. /\ {dma_overrun, overrun_run, late_service, proc_missed, seen_blocks, blocks_done} \subseteq Nat
        /\ OverrunLimit \in Nat /\ MaxHalves \in Nat /\ W \in Nat
        /\ W > MaxHalves /\ W > OverrunLimit /\ Cardinality(stat) \in Nat
    BY GrabReportAssumption, StatCount DEF ReportInv, CountTypes
  <2>2. dma_overrun < W /\ late_service < W /\ proc_missed < W
    BY <2>1 DEF ReportInv, BoundInv
  <2> QED
    BY <2>2 DEF Told, Counter
<1>3. a - base[e] \in Nat /\ a - base[e] < W /\ W \in Nat
  BY <1>1, <1>2, GrabReportAssumption
<1>4. \A n \in Nat : n < W => n % W = n
  BY <1>3
<1> QED
  BY <1>3, <1>4 DEF Delta

(* The report: what is told is what has happened up to the readings, and   *)
(* the readings are the next baselines.                                    *)
LEMMA ReportTells ==
  ASSUME ReportInv, Report PROVE ReportInv'
<1>1. /\ cpc = "report" /\ cpc' = "idle" /\ cret' = "idle"
      /\ reported' = [e \in Events |-> reported[e] + Delta(now[e], base[e])]
      /\ base' = [e \in Events \cup {"xf"} |-> IF e = "xf" THEN Transfers ELSE NewBase[e]]
      /\ now' = [r \in Reads |-> 0]
      /\ UNCHANGED <<countVars, cleared>>
  BY DEF Report, At, Forget, hwVars, isrVars, ppVars, countVars
<1>2. \A e \in Events : /\ now[e] \in Int /\ base[e] \in Int /\ reported[e] \in Int
                        /\ Delta(now[e], base[e]) \in Int
  <2>1. \A e \in Events : now[e] \in Int /\ base[e] \in Int /\ reported[e] \in Int
    BY DEF ReportInv, CountTypes, Reads
  <2>2. \A n \in Int : n % W \in Int
    BY GrabReportAssumption
  <2> QED
    BY <2>1, <2>2 DEF Delta
<1>3. Transfers \in Int
  <2>1. now.de \in Int /\ now.left \in Int /\ HalfLen \in Int
    BY GrabReportAssumption DEF ReportInv, CountTypes, Reads
  <2>2. now.de * 2 * HalfLen \in Int
    BY <2>1
  <2> QED
    BY <2>1, <2>2 DEF Transfers
<1>4. reported' \in [Events -> Int]
  BY <1>1, <1>2
<1>5. base' \in [Events \cup {"xf"} -> Int]
  BY <1>1, <1>2, <1>3 DEF NewBase, Events
<1>6. CountTypes'
  BY <1>1, <1>4, <1>5 DEF ReportInv, CountTypes, countVars
<1>7. BoundInv'
  BY <1>1 DEF ReportInv, BoundInv, countVars
<1>8. BalanceInv'
  <2> SUFFICES ASSUME ~cleared', NEW e \in Told
               PROVE  /\ reported'[e] + Counter'[e] - base'[e] = happened'[e]
                      /\ 0 <= base'[e] /\ base'[e] <= Counter'[e]
    BY DEF BalanceInv
  <2>1. ~cleared /\ e \in Events /\ e # "xf"
    BY <1>1 DEF Told, Events
  <2>2. base[e] <= now[e] /\ now[e] <= Counter[e]
    BY <1>1, <2>1 DEF ReportInv, ReadingInv, HasRead, Reporting
  <2>3. Delta(now[e], base[e]) = now[e] - base[e]
    BY <1>2, <2>1, <2>2, SmallDelta
  <2>4. reported'[e] = reported[e] + Delta(now[e], base[e]) /\ base'[e] = now[e]
    BY <1>1, <2>1 DEF NewBase
  <2>5. Counter'[e] = Counter[e] /\ happened'[e] = happened[e]
    BY <1>1 DEF Counter, countVars
  <2>6. /\ reported[e] + Counter[e] - base[e] = happened[e]
        /\ 0 <= base[e] /\ base[e] <= Counter[e]
    BY <2>1 DEF ReportInv, BalanceInv
  <2>7. Counter[e] \in Int /\ happened[e] \in Int
    BY DEF ReportInv, CountTypes, Counter, Told, Events
  <2> QED
    BY <1>2, <2>1, <2>2, <2>3, <2>4, <2>5, <2>6, <2>7
<1>9. ReadingInv'
  BY <1>1 DEF ReadingInv, HasRead, Reporting
<1> QED
  BY <1>6, <1>7, <1>8, <1>9 DEF ReportInv

(* "stream on": everything starts at 0.                                    *)
LEMMA ReportStreamOn ==
  ASSUME ReportInv, StreamOn PROVE ReportInv'
<1>1. /\ dma_overrun' = 0 /\ overrun_run' = 0 /\ late_service' = 0 /\ done_events' = 0
      /\ proc_missed' = 0 /\ seen_blocks' = blocks_done /\ blocks_done' = blocks_done
      /\ run_enabled' = TRUE /\ chan' = 0 /\ stat' = {} /\ ovr' = FALSE /\ cleared' = FALSE
      /\ cnt' = [c \in {0, 1} |-> HalfLen]
      /\ base' = [e \in Events \cup {"xf"} |-> 0]
      /\ happened' = Zero /\ reported' = Zero
      /\ cpc = "idle" /\ UNCHANGED <<cpc, cret, now>>
  BY DEF StreamOn, CountersClear, At
<1>2. CountTypes'
  <2>1. cnt' \in [{0, 1} -> Int]
    BY <1>1, GrabReportAssumption
  <2>2. reported' \in [Events -> Int] /\ happened' \in [Events -> Int]
    BY <1>1 DEF Zero
  <2>3. base' \in [Events \cup {"xf"} -> Int]
    BY <1>1
  <2>4. now' \in [Reads -> Int] /\ blocks_done \in Nat
    BY <1>1 DEF ReportInv, CountTypes
  <2>5. {dma_overrun', overrun_run', late_service', proc_missed', seen_blocks', blocks_done',
         done_events'} \subseteq Nat
    BY <1>1, <2>4
  <2>6. stat' \subseteq {0, 1} /\ chan' \in {0, 1} /\ run_enabled' \in BOOLEAN /\ ovr' \in BOOLEAN
        /\ cleared' \in BOOLEAN
    BY <1>1
  <2> QED
    BY <2>1, <2>2, <2>3, <2>4, <2>5, <2>6 DEF CountTypes
<1>3. BoundInv'
  <2>1. /\ Cardinality({}) = 0 /\ Cardinality(stat) \in Nat /\ blocks_done \in Nat
        /\ MaxHalves \in Nat /\ OverrunLimit \in Nat \ {0}
        /\ blocks_done + Cardinality(stat) <= MaxHalves
    BY StatCount, GrabReportAssumption DEF ReportInv, CountTypes, BoundInv
  <2> QED
    BY <1>1, <2>1 DEF BoundInv
<1>4. BalanceInv'
  BY <1>1 DEF BalanceInv, Zero, Counter, Told, Events
<1>5. ReadingInv'
  BY <1>1 DEF ReportInv, ReadingInv, HasRead, Reporting
<1> QED
  BY <1>2, <1>3, <1>4, <1>5 DEF ReportInv

(* "clear", the end of a stream, and the commands' other steps.            *)
LEMMA ReportOther ==
  ASSUME ReportInv,
         Clear \/ StreamOff \/ Settle \/ StreamStatus \/ StatusShown \/ GrabBegin \/ GrabRefused
  PROVE  ReportInv'
<1>1. CASE Clear
  <2>1. /\ dma_overrun' = 0 /\ overrun_run' = 0 /\ late_service' = 0 /\ done_events' = 0
        /\ proc_missed' = 0 /\ seen_blocks' = blocks_done /\ blocks_done' = blocks_done
        /\ happened' = Zero /\ reported' = Zero /\ cleared' = TRUE /\ cpc = "idle"
        /\ UNCHANGED <<stat, chan, cnt, run_enabled, ovr, base, cpc, cret, now>>
    BY <1>1 DEF Clear, CountersClear, At, hwVars, grabVars
  <2>2. reported' \in [Events -> Int] /\ happened' \in [Events -> Int]
    BY <2>1 DEF Zero
  <2>3. CountTypes'
    BY <2>1, <2>2 DEF ReportInv, CountTypes
  <2>4. BoundInv'
    <3>1. blocks_done \in Nat /\ OverrunLimit \in Nat \ {0}
      BY GrabReportAssumption DEF ReportInv, CountTypes
    <3> QED
      BY <2>1, <3>1 DEF ReportInv, BoundInv
  <2> QED
    BY <2>1, <2>3, <2>4 DEF ReportInv, BalanceInv, ReadingInv, HasRead, Reporting
<1>2. CASE Settle
  <2>1. /\ run_enabled' = FALSE /\ stat' = {} /\ ovr' = FALSE /\ cpc' = "idle" /\ cret' = "idle"
        /\ now' = [r \in Reads |-> 0]
        /\ UNCHANGED <<dma_overrun, overrun_run, late_service, proc_missed, seen_blocks,
                       blocks_done, done_events, chan, cnt, happened, reported, base, cleared>>
    BY <1>2 DEF Settle, Forget, isrVars, ppVars
  <2>2. CountTypes'
    <3>1. now' \in [Reads -> Int]
      BY <2>1
    <3>2. stat' \subseteq {0, 1} /\ run_enabled' \in BOOLEAN /\ ovr' \in BOOLEAN
      BY <2>1
    <3> QED
      BY <2>1, <3>1, <3>2 DEF ReportInv, CountTypes
  <2>3. BoundInv'
    <3>1. /\ Cardinality({}) = 0 /\ Cardinality(stat) \in Nat /\ blocks_done \in Nat
          /\ MaxHalves \in Nat
      BY StatCount, GrabReportAssumption DEF ReportInv, CountTypes
    <3> QED
      BY <2>1, <3>1 DEF ReportInv, BoundInv
  <2>4. BalanceInv'
    BY <2>1 DEF ReportInv, BalanceInv, Counter
  <2> QED
    BY <2>1, <2>2, <2>3, <2>4 DEF ReportInv, ReadingInv, HasRead, Reporting
<1>3. CASE StreamOff \/ StreamStatus \/ StatusShown \/ GrabBegin \/ GrabRefused
  <2>1. /\ UNCHANGED <<countVars, reported, base, cleared>>
        /\ now' = now \/ now' = [r \in Reads |-> 0]
        /\ \/ cpc' = "idle" /\ cret' = "idle"
           \/ cpc' = "pp" /\ cret' \in {"settle", "status"}
           \/ cpc' = "freeze" /\ cret' = "report"
    BY <1>3 DEF StreamOff, StreamStatus, StatusShown, GrabBegin, GrabRefused, Forget,
       hwVars, isrVars, ppVars, countVars
  <2>2. CountTypes'
    BY <2>1 DEF ReportInv, CountTypes, countVars
  <2>3. BoundInv' /\ BalanceInv'
    BY <2>1 DEF ReportInv, BoundInv, BalanceInv, Counter, countVars
  <2>4. ReadingInv'
    BY <2>1 DEF ReportInv, ReadingInv, HasRead, Reporting
  <2> QED
    BY <2>2, <2>3, <2>4 DEF ReportInv
<1> QED
  BY <1>1, <1>2, <1>3

(* The invariant of every behaviour.                                       *)
LEMMA ReportSafety == ReportSpec => []ReportInv
<1>1. ReportInv /\ [ReportNext]_reportVars => ReportInv'
  <2> SUFFICES ASSUME ReportInv, [ReportNext]_reportVars PROVE ReportInv'
    OBVIOUS
  <2>1. CASE UNCHANGED reportVars
    <3>1. UNCHANGED <<readVars, countVars>>
      BY <2>1 DEF reportVars, hwVars, isrVars, ppVars, grabVars, readVars, countVars
    <3> QED
      BY <3>1, ReportSame
  <2>2. CASE Console
    BY <2>2, ReportRead, ReportFrozen, ReportTells, ReportStreamOn, ReportOther DEF Console
  <2> QED
    BY <2>1, <2>2, ReportHardware, ReportIsr, ReportService DEF ReportNext
<1> QED
  BY <1>1, ReportStart, PTL DEF ReportSpec

(* Every overrun, late interrupt and missed half since "stream on" is told *)
(* by exactly one grab or is still to be told (acquisition.h, "since the   *)
(* previous grab"), in a stream without a "clear".                         *)
THEOREM ToldOnce == ReportSpec => []EachEventToldOnce
<1>1. ReportInv => EachEventToldOnce
  <2> SUFFICES ASSUME ReportInv, ~cleared, NEW e \in Told
               PROVE  reported[e] + Delta(Counter[e], base[e]) = happened[e]
    BY DEF EachEventToldOnce, Told
  <2>1. /\ reported[e] + Counter[e] - base[e] = happened[e]
        /\ 0 <= base[e] /\ base[e] <= Counter[e]
    BY DEF ReportInv, BalanceInv
  <2>2. reported[e] \in Int /\ base[e] \in Int /\ Counter[e] \in Int
    BY DEF ReportInv, CountTypes, Counter, Told, Events
  <2>3. Delta(Counter[e], base[e]) = Counter[e] - base[e]
    BY <2>1, <2>2, SmallDelta
  <2> QED
    BY <2>1, <2>2, <2>3
<1> QED
  BY <1>1, ReportSafety, PTL

-----------------------------------------------------------------------------
(* The transfer count.  Where the stream stands: as many pairs as counted  *)
(* or flagged, and the position within the pair.                           *)
Pairs(n) == n * 2 * HalfLen
Position == IF chan = 0 THEN HalfLen - cnt[0] ELSE 2 * HalfLen - cnt[1]
Telling == s_on /\ ~overrun_abort /\ ~cleared
PlaceInv ==
  /\ cnt[0] \in 1 .. HalfLen /\ cnt[1] \in 1 .. HalfLen
  /\ cnt[1 - chan] = HalfLen
  /\ moved \in Nat /\ entry \in Nat
  /\ Telling => run_enabled /\ moved = Pairs(done_events + Dones) + Position

(* What the three readings of capture_transfers() say of it.               *)
HasPp == cpc \in {"left", "de", "report", "settle", "status"}
HasLeft == cpc \in {"de", "report", "settle", "status"}
CountInv ==
  /\ cpc # "idle" => s_on
  /\ HasPp => now.pp \in {0, 1}
  /\ HasLeft => now.left \in 1 .. 2 * HalfLen
  /\ CountRead => now.de \in Nat
  /\ Telling /\ HasPp => entry <= moved /\ entry < Pairs(done_events + 1)
  /\ Telling /\ CountRead => entry < Pairs(now.de + 1) /\ Pairs(now.de) <= moved

(* Once the trigger is off, nothing moves and nothing is counted.          *)
Left == IF chan = 1 THEN cnt[1] ELSE cnt[0] + HalfLen
StopInv ==
  /\ cpc = "settle" => cret = "settle"
  /\ cret = "settle" => s_on /\ ~trig /\ cpc \in {"pp", "left", "de", "settle"}
  /\ cret = "settle" /\ run_enabled => stat = {} /\ ~ovr
  /\ cret = "settle" /\ Telling =>
       /\ cpc # "pp" => now.pp = chan
       /\ cpc \in {"de", "settle"} => now.left = Left
       /\ cpc = "settle" => now.de = done_events

MoveInv == PlaceInv /\ CountInv /\ StopInv

LEMMA PairsSteps ==
  /\ HalfLen \in Nat \ {0}
  /\ Pairs(0) = 0
  /\ \A n \in Nat : Pairs(n) \in Nat /\ Pairs(n + 1) = Pairs(n) + 2 * HalfLen
  /\ \A m, n \in Nat : m <= n => Pairs(m) <= Pairs(n)
<1>1. HalfLen \in Nat \ {0}
  BY GrabReportAssumption
<1>2. Pairs(0) = 0
  BY <1>1 DEF Pairs
<1>3. ASSUME NEW n \in Nat PROVE Pairs(n) \in Nat /\ Pairs(n + 1) = Pairs(n) + 2 * HalfLen
  BY <1>1 DEF Pairs
<1>4. ASSUME NEW m \in Nat, NEW n \in Nat, m <= n PROVE Pairs(m) <= Pairs(n)
  <2>1. PICK d \in Nat : n = m + d
    <3>1. n - m \in Nat /\ n = m + (n - m)
      BY <1>4
    <3> QED
      BY <3>1
  <2>2. Pairs(n) = Pairs(m) + Pairs(d) /\ Pairs(d) \in Nat /\ Pairs(m) \in Nat
    BY <1>1, <2>1 DEF Pairs
  <2> QED
    BY <2>2
<1> QED
  BY <1>1, <1>2, <1>3, <1>4

LEMMA PairsNext ==
  ASSUME NEW m \in Nat, NEW n \in Nat, m <= n
  PROVE  Pairs(m + 1) <= Pairs(n + 1) /\ Pairs(m + 1) \in Nat /\ Pairs(n + 1) \in Nat
<1>1. /\ Pairs(m) <= Pairs(n) /\ Pairs(m) \in Nat /\ Pairs(n) \in Nat /\ HalfLen \in Nat
      /\ Pairs(m + 1) = Pairs(m) + 2 * HalfLen /\ Pairs(n + 1) = Pairs(n) + 2 * HalfLen
  BY PairsSteps
<1> QED
  BY <1>1

(* The types the transfer count needs of the report's invariant.           *)
LEMMA PlaceTypes ==
  ASSUME ReportInv
  PROVE  /\ chan \in {0, 1} /\ cnt \in [{0, 1} -> Int] /\ stat \subseteq {0, 1}
         /\ done_events \in Nat /\ Dones \in {0, 1} /\ now \in [Reads -> Int]
         /\ cret \in {"idle", "settle", "report", "status"}
BY DEF ReportInv, CountTypes, ReadingInv, Dones

LEMMA MoveInit == ReportInit => MoveInv
<1> SUFFICES ASSUME ReportInit PROVE MoveInv
  OBVIOUS
<1>1. HalfLen \in Nat \ {0}
  BY GrabReportAssumption
<1>2. PlaceInv
  BY <1>1 DEF ReportInit, PlaceInv, Telling
<1>3. cpc = "idle" /\ cret = "idle"
  BY DEF ReportInit
<1> QED
  BY <1>2, <1>3 DEF MoveInv, CountInv, StopInv, HasPp, HasLeft, CountRead

(* A transfer moves the position on by one, and ends a pair when the pong  *)
(* half is full.                                                           *)
LEMMA MoveTransfer ==
  ASSUME ReportInv, MoveInv, HwTransfer PROVE MoveInv'
<1>1. /\ trig /\ run_enabled /\ moved' = moved + 1
      /\ cnt[chan] = 1 => chan \notin stat
      /\ IF cnt[chan] > 1
         THEN cnt' = [cnt EXCEPT ![chan] = cnt[chan] - 1] /\ UNCHANGED <<chan, stat>>
         ELSE cnt' = [cnt EXCEPT ![chan] = HalfLen] /\ stat' = stat \cup {chan}
              /\ chan' = 1 - chan
      /\ UNCHANGED <<run_enabled, s_on, cleared, overrun_abort, done_events, cpc, cret, now, entry>>
  BY DEF HwTransfer, isrVars, grabVars
<1>2. /\ chan \in {0, 1} /\ cnt \in [{0, 1} -> Int] /\ stat \subseteq {0, 1} /\ done_events \in Nat
  BY PlaceTypes
<1>3. /\ HalfLen \in Nat \ {0}
      /\ cnt[0] \in 1 .. HalfLen /\ cnt[1] \in 1 .. HalfLen /\ cnt[1 - chan] = HalfLen
      /\ moved \in Nat /\ entry \in Nat
  BY PairsSteps DEF MoveInv, PlaceInv
<1>4. /\ cnt'[0] \in 1 .. HalfLen /\ cnt'[1] \in 1 .. HalfLen /\ cnt'[1 - chan'] = HalfLen
  BY <1>1, <1>2, <1>3
<1>5. Pairs(done_events' + Dones') + Position' = Pairs(done_events + Dones) + Position + 1
  <2>1. CASE cnt[chan] > 1
    <3>1. Dones' = Dones /\ done_events' = done_events
      BY <1>1, <2>1 DEF Dones
    <3>2. Position' = Position + 1
      BY <1>1, <1>2, <1>3, <2>1 DEF Position
    <3>3. Pairs(done_events + Dones) \in Int /\ Position \in Int
      <4>1. done_events + Dones \in Nat
        BY <1>2 DEF Dones
      <4>2. Pairs(done_events + Dones) \in Int
        BY <4>1, PairsSteps
      <4>3. Position \in Int
        BY <1>2, <1>3 DEF Position
      <4> QED
        BY <4>2, <4>3
    <3>4. Pairs(done_events' + Dones') = Pairs(done_events + Dones)
      BY <3>1
    <3> QED
      BY <3>2, <3>3, <3>4
  <2>2. CASE cnt[chan] = 1 /\ chan = 0
    <3>1. Dones' = Dones /\ done_events' = done_events
      BY <1>1, <2>2 DEF Dones
    <3>2. Position' = Position + 1 /\ Position \in Int
      BY <1>1, <1>2, <1>3, <2>2 DEF Position
    <3>3. Pairs(done_events + Dones) \in Int
      <4>1. done_events + Dones \in Nat
        BY <1>2 DEF Dones
      <4> QED
        BY <4>1, PairsSteps
    <3>4. Pairs(done_events' + Dones') = Pairs(done_events + Dones)
      BY <3>1
    <3> QED
      BY <3>2, <3>3, <3>4
  <2>3. CASE cnt[chan] = 1 /\ chan = 1
    <3>1. Dones = 0 /\ Dones' = 1 /\ done_events' = done_events
      BY <1>1, <2>3 DEF Dones
    <3>2. Position = 2 * HalfLen - 1 /\ Position' = 0
      BY <1>1, <1>2, <1>3, <2>3 DEF Position
    <3>3. Pairs(done_events + 1) = Pairs(done_events) + 2 * HalfLen /\ Pairs(done_events) \in Nat
      BY <1>2, PairsSteps
    <3>4. /\ Pairs(done_events' + Dones') = Pairs(done_events + 1)
          /\ Pairs(done_events + Dones) = Pairs(done_events)
      BY <1>2, <3>1
    <3> QED
      BY <1>3, <3>2, <3>3, <3>4
  <2> QED
    BY <1>2, <1>3, <2>1, <2>2, <2>3
<1>6. PlaceInv'
  <2>1. Telling' => Telling
    BY <1>1 DEF Telling
  <2>2. ASSUME Telling' PROVE run_enabled' /\ moved' = Pairs(done_events' + Dones') + Position'
    <3>1. moved = Pairs(done_events + Dones) + Position
      BY <2>1, <2>2 DEF MoveInv, PlaceInv
    <3> QED
      BY <1>1, <1>5, <3>1
  <2> QED
    BY <1>1, <1>3, <1>4, <2>2 DEF PlaceInv
<1>7. CountInv'
  <2>1. ASSUME Telling, HasPp PROVE entry <= moved + 1
    BY <1>3, <2>1 DEF MoveInv, CountInv
  <2>2. ASSUME Telling, CountRead PROVE Pairs(now.de) <= moved + 1
    <3>1. Pairs(now.de) <= moved /\ now.de \in Nat
      BY <2>2 DEF MoveInv, CountInv
    <3>2. Pairs(now.de) \in Nat
      BY <3>1, PairsSteps
    <3> QED
      BY <1>3, <3>1, <3>2
  <2> QED
    BY <1>1, <2>1, <2>2 DEF MoveInv, CountInv, Telling, HasPp, HasLeft, CountRead
<1>8. StopInv'
  <2>1. cret # "settle" /\ cpc # "settle"
    BY <1>1 DEF MoveInv, StopInv
  <2> QED
    BY <1>1, <2>1 DEF StopInv
<1> QED
  BY <1>6, <1>7, <1>8 DEF MoveInv

(* Steps that move nothing and leave the command where it is.              *)
LEMMA MoveSame ==
  ASSUME ReportInv, MoveInv,
         UNCHANGED <<trig, run_enabled, chan, cnt, stat, done_events, overrun_abort, s_on, cpc, cret,
                     now, moved, entry, cleared>>,
         cret = "settle" /\ run_enabled => ovr' = ovr
  PROVE  MoveInv'
<1>1. PlaceInv'
  BY DEF MoveInv, PlaceInv, Telling, Dones, Position, Pairs
<1>2. CountInv'
  BY DEF MoveInv, CountInv, Telling, HasPp, HasLeft, CountRead, Pairs
<1>3. StopInv'
  BY DEF MoveInv, StopInv, Telling, Left
<1> QED
  BY <1>1, <1>2, <1>3 DEF MoveInv

(* The interrupt turns a flag into a counted pair; the brake ends the      *)
(* telling.                                                                *)
LEMMA MoveIsr ==
  ASSUME ReportInv, MoveInv, DmaIsr PROVE MoveInv'
<1>1. /\ run_enabled /\ stat' = {} /\ ovr' = FALSE /\ Pending
      /\ \/ run_enabled' = FALSE /\ overrun_abort' = TRUE /\ done_events' = done_events
         \/ done_events' = done_events + Dones /\ UNCHANGED <<run_enabled, overrun_abort>>
      /\ UNCHANGED <<trig, chan, cnt, s_on, cpc, cret, now, moved, entry, cleared>>
  BY DEF DmaIsr, ppVars, grabVars
<1>2. done_events \in Nat /\ Dones \in Nat /\ Dones' = 0
  BY <1>1, PlaceTypes DEF Dones
<1>3. done_events' \in Nat /\ done_events <= done_events'
  <2>1. done_events' = done_events \/ done_events' = done_events + Dones
    BY <1>1
  <2> QED
    BY <1>2, <2>1
<1>4. CASE overrun_abort'
  <2>1. ~Telling'
    BY <1>4 DEF Telling
  <2>2. PlaceInv'
    BY <1>1, <2>1 DEF MoveInv, PlaceInv
  <2>3. CountInv'
    BY <1>1, <2>1 DEF MoveInv, CountInv, HasPp, HasLeft, CountRead
  <2>4. StopInv'
    BY <1>1, <2>1 DEF MoveInv, StopInv
  <2> QED
    BY <2>2, <2>3, <2>4 DEF MoveInv
<1>5. CASE ~overrun_abort'
  <2>1. done_events' = done_events + Dones /\ UNCHANGED <<run_enabled, overrun_abort>>
    BY <1>1, <1>5
  <2>2. Telling' = Telling
    BY <1>1, <2>1 DEF Telling
  <2>3. PlaceInv'
    <3>1. done_events' + Dones' = done_events + Dones
      BY <1>2, <2>1
    <3>2. Pairs(done_events' + Dones') = Pairs(done_events + Dones)
      BY <3>1
    <3>3. Position' = Position
      BY <1>1 DEF Position
    <3> QED
      BY <1>1, <2>1, <2>2, <3>2, <3>3 DEF MoveInv, PlaceInv
  <2>4. CountInv'
    <3>1. ASSUME Telling, HasPp PROVE entry < Pairs(done_events' + 1)
      <4>1. entry < Pairs(done_events + 1) /\ entry \in Nat
        BY <3>1 DEF MoveInv, CountInv, PlaceInv
      <4>2. /\ Pairs(done_events + 1) <= Pairs(done_events' + 1)
            /\ Pairs(done_events + 1) \in Nat /\ Pairs(done_events' + 1) \in Nat
        BY <1>2, <1>3, PairsNext
      <4> QED
        BY <4>1, <4>2
    <3> QED
      BY <1>1, <2>2, <3>1 DEF MoveInv, CountInv, HasPp, HasLeft, CountRead
  <2>5. StopInv'
    <3>1. cret # "settle" /\ cpc # "settle"
      BY <1>1 DEF MoveInv, StopInv, Pending
    <3> QED
      BY <1>1, <3>1 DEF StopInv
  <2> QED
    BY <2>3, <2>4, <2>5 DEF MoveInv
<1> QED
  BY <1>4, <1>5

(* One of the three readings of capture_transfers().                       *)
LEMMA MoveRead ==
  ASSUME ReportInv, MoveInv, NEW r \in Reads, Read(r) PROVE MoveInv'
<1>1. /\ cpc = r /\ now' = [now EXCEPT ![r] = Value[r]] /\ (run_enabled => ~Pending)
      /\ cpc' = IF r = "de" THEN cret ELSE After[r]
      /\ entry' = IF r = "pp" THEN moved ELSE entry
      /\ UNCHANGED <<trig, run_enabled, chan, cnt, stat, ovr, done_events, overrun_abort, s_on, cret,
                     moved, cleared>>
  BY DEF Read, At, hwVars, isrVars, ppVars
<1>2. /\ chan \in {0, 1} /\ cnt \in [{0, 1} -> Int] /\ done_events \in Nat /\ Dones \in {0, 1}
      /\ now \in [Reads -> Int] /\ HalfLen \in Nat \ {0}
      /\ cret \in {"idle", "settle", "report", "status"}
  BY PlaceTypes, PairsSteps
<1>3. /\ cnt[0] \in 1 .. HalfLen /\ cnt[1] \in 1 .. HalfLen /\ moved \in Nat /\ entry \in Nat
  BY DEF MoveInv, PlaceInv
<1>4. UNCHANGED <<Dones, Position, Telling>>
  BY <1>1 DEF Dones, Position, Telling
<1>5. PlaceInv'
  BY <1>1, <1>3, <1>4 DEF MoveInv, PlaceInv, Pairs
<1>6. CASE r \in {"ov", "la", "mi", "hv"}
  <2>1. cpc' \in {"la", "mi", "hv", "pp"} /\ cret = "report"
    BY <1>1, <1>6 DEF ReportInv, ReadingInv, After
  <2>2. CountInv'
    BY <1>1, <1>6, <2>1 DEF MoveInv, CountInv, HasPp, HasLeft, CountRead
  <2>3. StopInv'
    BY <1>1, <2>1 DEF StopInv
  <2> QED
    BY <1>5, <2>2, <2>3 DEF MoveInv
<1>7. CASE r = "pp"
  <2>1. cpc' = "left" /\ now'.pp = chan /\ entry' = moved
    BY <1>1, <1>2, <1>7 DEF After, Value, Reads
  <2>2. ASSUME Telling PROVE moved < Pairs(done_events + 1)
    <3>1. Dones = 0
      BY <1>1, <2>2 DEF MoveInv, PlaceInv, Pending, Dones
    <3>2. done_events + Dones = done_events
      BY <1>2, <3>1
    <3>3. moved = Pairs(done_events) + Position
      BY <2>2, <3>2 DEF MoveInv, PlaceInv
    <3>4. Position \in Int /\ Position < 2 * HalfLen
      BY <1>2, <1>3 DEF Position
    <3> QED
      BY <1>2, <3>3, <3>4, PairsSteps
  <2>3. CountInv'
    BY <1>1, <1>2, <1>3, <1>4, <1>7, <2>1, <2>2
    DEF MoveInv, CountInv, HasPp, HasLeft, CountRead, Pairs
  <2>4. StopInv'
    BY <1>1, <1>4, <1>7, <2>1 DEF MoveInv, StopInv
  <2> QED
    BY <1>5, <2>3, <2>4 DEF MoveInv
<1>8. CASE r = "left"
  <2>1. /\ cpc' = "de" /\ entry' = entry /\ now'.pp = now.pp
        /\ now'.left = IF now.pp = 1 THEN cnt[1] ELSE cnt[0] + HalfLen
    BY <1>1, <1>2, <1>8 DEF After, Value, Reads
  <2>2. now'.left \in 1 .. 2 * HalfLen
    BY <1>2, <1>3, <2>1
  <2>3. CountInv'
    BY <1>1, <1>4, <1>8, <2>1, <2>2 DEF MoveInv, CountInv, HasPp, HasLeft, CountRead, Pairs
  <2>4. StopInv'
    <3>1. cret = "settle" /\ Telling => now.pp = chan
      BY <1>1, <1>8 DEF MoveInv, StopInv
    <3>2. cret = "settle" /\ Telling => now'.pp = chan' /\ now'.left = Left'
      BY <1>1, <2>1, <3>1 DEF Left
    <3> QED
      BY <1>1, <1>4, <1>8, <2>1, <3>2 DEF MoveInv, StopInv
  <2> QED
    BY <1>5, <2>3, <2>4 DEF MoveInv
<1>9. CASE r = "de"
  <2>1. /\ cpc' = cret /\ entry' = entry /\ now'.pp = now.pp /\ now'.left = now.left
        /\ now'.de = done_events
    BY <1>1, <1>2, <1>9 DEF Value, Reads
  <2>2. ASSUME Telling PROVE Pairs(done_events) <= moved
    <3>1. moved = Pairs(done_events + Dones) + Position
      BY <2>2 DEF MoveInv, PlaceInv
    <3>2. Position \in Nat
      BY <1>2, <1>3 DEF Position
    <3>3. done_events + Dones \in Nat /\ done_events <= done_events + Dones
      BY <1>2
    <3>4. /\ Pairs(done_events) <= Pairs(done_events + Dones)
          /\ Pairs(done_events) \in Nat /\ Pairs(done_events + Dones) \in Nat
      BY <1>2, <3>3, PairsSteps
    <3> QED
      BY <3>1, <3>2, <3>4
  <2>3. CountInv'
    <3>1. /\ now'.de \in Nat /\ Pairs(now'.de) = Pairs(done_events)
          /\ Pairs(now'.de + 1) = Pairs(done_events + 1)
      BY <1>2, <2>1
    <3>2. Telling => entry < Pairs(done_events + 1) /\ entry <= moved
      BY <1>1, <1>9 DEF MoveInv, CountInv, HasPp
    <3>3. now.pp \in {0, 1} /\ now.left \in 1 .. 2 * HalfLen /\ s_on
      BY <1>1, <1>9 DEF MoveInv, CountInv, HasPp, HasLeft
    <3>4. Telling' = Telling /\ moved' = moved /\ done_events' = done_events /\ s_on' = s_on
      BY <1>1, <1>4
    <3>5. HasPp' /\ Telling' => entry' <= moved' /\ entry' < Pairs(done_events' + 1)
      BY <2>1, <3>2, <3>4
    <3>6. CountRead' /\ Telling' => entry' < Pairs(now'.de + 1) /\ Pairs(now'.de) <= moved'
      BY <2>1, <2>2, <3>1, <3>2, <3>4
    <3> QED
      BY <2>1, <3>1, <3>3, <3>4, <3>5, <3>6 DEF CountInv, Pairs
  <2>4. StopInv'
    <3>1. cret = "settle" /\ Telling => now.pp = chan /\ now.left = Left
      BY <1>1, <1>9 DEF MoveInv, StopInv
    <3>2. cret = "settle" /\ Telling => now'.pp = chan' /\ now'.left = Left'
      BY <1>1, <2>1, <3>1 DEF Left
    <3> QED
      BY <1>1, <1>2, <1>4, <1>9, <2>1, <3>2 DEF MoveInv, StopInv
  <2> QED
    BY <1>5, <2>3, <2>4 DEF MoveInv
<1> QED
  BY <1>6, <1>7, <1>8, <1>9 DEF Reads, Events

(* "stream on": the first transfer of the first pair is still to come.     *)
LEMMA MoveStreamOn ==
  ASSUME ReportInv, MoveInv, StreamOn PROVE MoveInv'
<1>1. /\ done_events' = 0 /\ run_enabled' /\ chan' = 0 /\ stat' = {} /\ moved' = 0
      /\ cnt' = [c \in {0, 1} |-> HalfLen] /\ s_on'
      /\ cpc = "idle" /\ ~s_on /\ UNCHANGED <<cpc, cret, entry>>
  BY DEF StreamOn, CountersClear, At
<1>2. HalfLen \in Nat \ {0} /\ Pairs(0) = 0 /\ entry \in Nat
  BY PairsSteps DEF MoveInv, PlaceInv
<1>3. Dones' = 0 /\ Position' = 0
  BY <1>1, <1>2 DEF Dones, Position
<1>4. Pairs(done_events' + Dones') + Position' = 0
  <2>1. done_events' + Dones' = 0
    BY <1>1, <1>3
  <2>2. Pairs(done_events' + Dones') = 0
    BY <1>2, <2>1
  <2> QED
    BY <1>3, <2>2
<1>5. PlaceInv'
  BY <1>1, <1>2, <1>4 DEF PlaceInv
<1>6. cret # "settle"
  BY <1>1 DEF MoveInv, StopInv
<1> QED
  BY <1>1, <1>5, <1>6 DEF MoveInv, CountInv, StopInv, HasPp, HasLeft, CountRead

(* The end of a stream: the trigger goes off with nothing pending.         *)
LEMMA MoveStop ==
  ASSUME ReportInv, MoveInv, StreamOff \/ Settle PROVE MoveInv'
<1>1. CASE StreamOff
  <2>1. /\ cpc = "idle" /\ s_on /\ ~trig' /\ cpc' = "pp" /\ cret' = "settle"
        /\ run_enabled => ~Pending
        /\ UNCHANGED <<run_enabled, chan, cnt, stat, ovr, done_events, overrun_abort, s_on, now, moved,
                       entry, cleared>>
    BY <1>1 DEF StreamOff, At, TriggerAfterOff, isrVars
  <2>2. PlaceInv'
    BY <2>1 DEF MoveInv, PlaceInv, Telling, Dones, Position, Pairs
  <2>3. CountInv'
    BY <2>1 DEF CountInv, HasPp, HasLeft, CountRead
  <2>4. StopInv'
    BY <2>1 DEF StopInv, Pending
  <2> QED
    BY <2>2, <2>3, <2>4 DEF MoveInv
<1>2. CASE Settle
  <2>1. /\ ~s_on' /\ cpc' = "idle" /\ cret' = "idle" /\ entry' = 0
        /\ UNCHANGED <<chan, cnt, moved>>
    BY <1>2 DEF Settle, Forget
  <2>2. PlaceInv'
    BY <2>1 DEF MoveInv, PlaceInv, Telling
  <2> QED
    BY <2>1, <2>2 DEF MoveInv, CountInv, StopInv, HasPp, HasLeft, CountRead
<1> QED
  BY <1>1, <1>2

(* "clear" ends the telling; the other steps begin or end a command.       *)
LEMMA MoveOther ==
  ASSUME ReportInv, MoveInv,
         Clear \/ StreamStatus \/ StatusShown \/ GrabBegin \/ GrabRefused \/ Frozen \/ Report
  PROVE  MoveInv'
<1>1. CASE Clear
  <2>1. /\ cpc = "idle" /\ cleared' /\ moved' = 0
        /\ UNCHANGED <<chan, cnt, cpc, cret, entry, s_on>>
    BY <1>1 DEF Clear, CountersClear, At, hwVars, grabVars
  <2>2. PlaceInv'
    BY <2>1 DEF MoveInv, PlaceInv, Telling
  <2> QED
    BY <2>1, <2>2 DEF MoveInv, CountInv, StopInv, HasPp, HasLeft, CountRead
<1>2. CASE StreamStatus \/ StatusShown \/ GrabBegin \/ GrabRefused \/ Frozen \/ Report
  <2>1. /\ UNCHANGED <<trig, run_enabled, chan, cnt, stat, ovr, done_events, overrun_abort, s_on,
                       moved, cleared>>
        /\ \/ cpc' = "idle" /\ cret' = "idle" /\ entry' \in {0, entry}
           \/ cpc' = "pp" /\ cret' = "status" /\ s_on /\ entry' = entry
           \/ cpc' = "freeze" /\ cret' = "report" /\ s_on /\ entry' = entry
           \/ cpc = "freeze" /\ cpc' = "ov" /\ cret' = cret /\ entry' = entry
    BY <1>2 DEF StreamStatus, StatusShown, GrabBegin, GrabRefused, Frozen, Report, Forget, At,
       hwVars, isrVars
  <2>2. PlaceInv'
    <3>1. entry' \in Nat
      BY <2>1 DEF MoveInv, PlaceInv
    <3> QED
      BY <2>1, <3>1 DEF MoveInv, PlaceInv, Telling, Dones, Position, Pairs
  <2>3. CountInv'
    BY <2>1 DEF MoveInv, CountInv, HasPp, HasLeft, CountRead
  <2>4. StopInv'
    BY <2>1 DEF MoveInv, StopInv
  <2> QED
    BY <2>2, <2>3, <2>4 DEF MoveInv
<1> QED
  BY <1>1, <1>2

LEMMA MoveSafety == ReportSpec => [](ReportInv /\ MoveInv)
<1>1. ReportInv /\ MoveInv /\ [ReportNext]_reportVars => MoveInv'
  <2> SUFFICES ASSUME ReportInv, MoveInv, [ReportNext]_reportVars PROVE MoveInv'
    OBVIOUS
  <2>1. CASE UNCHANGED reportVars
    BY <2>1, MoveSame DEF reportVars, hwVars, isrVars, grabVars
  <2>2. CASE HwOverrun
    <3>1. trig /\ UNCHANGED <<trig, run_enabled, chan, cnt, stat, done_events, overrun_abort, s_on,
                              cpc, cret, now, moved, entry, cleared>>
      BY <2>2 DEF HwOverrun, isrVars, grabVars
    <3>2. cret # "settle"
      BY <3>1 DEF MoveInv, StopInv
    <3> QED
      BY <3>1, <3>2, MoveSame
  <2>3. CASE Service
    BY <2>3, MoveSame DEF Service, hwVars, isrVars, grabVars
  <2>4. CASE Console
    BY <2>4, MoveRead, MoveStreamOn, MoveStop, MoveOther DEF Console
  <2> QED
    BY <2>1, <2>2, <2>3, <2>4, MoveTransfer, MoveIsr DEF ReportNext
<1> QED
  BY <1>1, MoveInit, ReportSafety, PTL DEF ReportSpec

(* capture_transfers() is off by less than a pair, whatever the DMA does   *)
(* between its three readings: at least the transfers made when it began,  *)
(* at most those made since, up to a pair.                                 *)
THEOREM CountWithinAPair == ReportSpec => []TransfersWithinAPair
<1>1. ReportInv /\ MoveInv => TransfersWithinAPair
  <2> SUFFICES ASSUME ReportInv, MoveInv, CountRead, ~overrun_abort, ~cleared
               PROVE  Transfers > entry - 2 * HalfLen /\ Transfers < moved + 2 * HalfLen
    BY DEF TransfersWithinAPair
  <2>1. Telling /\ HasLeft
    BY DEF MoveInv, CountInv, Telling, HasLeft, CountRead
  <2>2. /\ now.left \in 1 .. 2 * HalfLen /\ now.de \in Nat /\ entry \in Nat /\ moved \in Nat
        /\ entry < Pairs(now.de + 1) /\ Pairs(now.de) <= moved
    BY <2>1 DEF MoveInv, CountInv, PlaceInv
  <2>3. Pairs(now.de) \in Nat /\ Pairs(now.de + 1) = Pairs(now.de) + 2 * HalfLen
        /\ HalfLen \in Nat \ {0}
    BY <2>2, PairsSteps
  <2>4. Transfers = Pairs(now.de) + (2 * HalfLen - now.left)
    BY DEF Transfers, Pairs
  <2> QED
    BY <2>2, <2>3, <2>4
<1> QED
  BY <1>1, MoveSafety, PTL

(* The count taken when a stream is stopped is exact: the trigger goes off *)
(* before the three readings and nothing moves any more.                   *)
THEOREM StopCounted == ReportSpec => []StopCountExact
<1>1. ReportInv /\ MoveInv => StopCountExact
  <2> SUFFICES ASSUME ReportInv, MoveInv, cpc = "settle", ~overrun_abort, ~cleared
               PROVE  Transfers = moved
    BY DEF StopCountExact
  <2>1. Telling /\ cret = "settle" /\ run_enabled
    BY DEF MoveInv, CountInv, StopInv, PlaceInv, Telling
  <2>2. now.left = Left /\ now.de = done_events /\ Dones = 0
    BY <2>1 DEF MoveInv, StopInv, Dones
  <2>3. chan \in {0, 1} /\ cnt \in [{0, 1} -> Int] /\ done_events \in Nat /\ HalfLen \in Nat
    BY PlaceTypes, PairsSteps
  <2>4. moved = Pairs(done_events) + Position
    <3>1. done_events + Dones = done_events
      BY <2>2, <2>3
    <3> QED
      BY <2>1, <3>1 DEF MoveInv, PlaceInv
  <2>5. 2 * HalfLen - Left = Position
    BY <2>3 DEF Left, Position
  <2>6. Transfers = Pairs(done_events) + (2 * HalfLen - Left)
    BY <2>2 DEF Transfers, Pairs
  <2> QED
    BY <2>4, <2>5, <2>6
<1> QED
  BY <1>1, MoveSafety, PTL
=============================================================================
