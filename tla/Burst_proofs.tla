---------------------------- MODULE Burst_proofs ----------------------------
(***************************************************************************)
(* That the code begins no burst over one it knows to be in flight, that   *)
(* the DONE of one that ended is never lost, that an input change is       *)
(* carried out and that a one-shot reporting success filled the buffer     *)
(* with exactly its bursts: proved for any set of inputs and lengths, any  *)
(* overrun limit and any buffer, for every interleaving of the hardware,   *)
(* the interrupt and the commands - but for the burst that the brake or an *)
(* abort takes out of the code's hands (`cut'), until the channel is armed *)
(* again with none in flight.  FlightSafe holds whatever calls a command   *)
(* is made of; the others rest on which call follows which (Program).      *)
(***************************************************************************)
EXTENDS Burst, SequenceTheorems, TLAPS

Flags == {"HALF", "DONE", "OVERRUN"}

BurstTypeOK ==
  /\ conv \in 0 .. 2 * Half /\ hung \in BOOLEAN /\ fill \in 0 .. 2 * Half - 1
  /\ stat \subseteq Flags /\ st \subseteq Flags
  /\ dmaIf \in BOOLEAN /\ chen \in BOOLEAN /\ cut \in BOOLEAN
  /\ isr \in {"none", "read", "OVERRUN", "HALF", "DONE", "after"}
  /\ soft \in [run : BOOLEAN, burst : BOOLEAN, armed : BOOLEAN, aborted : BOOLEAN,
               ov : Nat, was : BOOLEAN]

(* The channel is on exactly when it is armed, and while its interrupt     *)
(* runs.                                                                   *)
ChannelInv == (chen <=> soft.armed) /\ (isr # "none" => chen)

(* burst_active is set before a burst begins and reset after it has ended, *)
(* and the channel's block ends with the burst.                            *)
FlightInv ==
  ~cut => /\ conv # 0 => soft.burst
          /\ chen => fill = IF conv = 0 THEN 0 ELSE 2 * Half - conv

(* A DONE in the interrupt's snapshot is still in the status word; there   *)
(* or being acted on it is that of the burst burst_active stands for.      *)
DoneInv ==
  /\ isr \in {"OVERRUN", "HALF", "DONE"} /\ "DONE" \in st => "DONE" \in stat
  /\ ~cut => /\ chen /\ "DONE" \in stat => soft.burst /\ conv = 0
             /\ isr = "after" => soft.burst /\ conv = 0 /\ "DONE" \notin stat

(* A DONE that the interrupt has not seen has it requested.                *)
RequestInv ==
  chen /\ "DONE" \in stat =>
    dmaIf \/ isr = "read" \/ (isr \in {"OVERRUN", "HALF", "DONE"} /\ "DONE" \in st)

FlightSafe == BurstTypeOK /\ ChannelInv /\ FlightInv /\ DoneInv /\ RequestInv

USE DEF FlightSafe, BurstTypeOK, ChannelInv, FlightInv, DoneInv, RequestInv, Flags, adc, ghosts

LEMMA HalfIsNat ==
  /\ Half \in Nat /\ Half >= 1
  /\ 0 \in 0 .. 2 * Half /\ 0 \in 0 .. 2 * Half - 1 /\ 2 * Half \in 0 .. 2 * Half /\ 2 * Half > 0
  /\ \A c \in 0 .. 2 * Half : c \in Int /\ c >= 0 /\ c <= 2 * Half
  /\ \A c \in 0 .. 2 * Half : c > 0 => c - 1 \in 0 .. 2 * Half
  /\ \A f \in 0 .. 2 * Half - 1 : f \in Int /\ f >= 0 /\ f < 2 * Half
  /\ \A f \in 0 .. 2 * Half - 1 : f + 1 # 2 * Half => f + 1 \in 0 .. 2 * Half - 1
<1>1. Half \in Nat /\ Half >= 1
  BY BurstAssumption
<1> QED
  BY <1>1

(* At boot nothing is in flight and nothing is armed.                      *)
LEMMA FlightInit == BurstInit => FlightSafe
<1> SUFFICES ASSUME BurstInit PROVE FlightSafe
  OBVIOUS
<1>1. /\ conv = 0 /\ hung = FALSE /\ fill = 0 /\ cut = FALSE
      /\ stat = {} /\ st = {} /\ isr = "none"
      /\ dmaIf = FALSE /\ chen = TRUE
      /\ soft = [run |-> FALSE, burst |-> FALSE, armed |-> TRUE, aborted |-> FALSE, ov |-> 0,
                 was |-> FALSE]
  BY DEF BurstInit
<1>2. conv \in 0 .. 2 * Half /\ fill \in 0 .. 2 * Half - 1
  BY <1>1, HalfIsNat
<1> QED
  BY <1>1, <1>2

(* The core's steps only raise flags of the burst burst_active stands for. *)
LEMMA FlightHardware ==
  ASSUME FlightSafe, Hardware PROVE FlightSafe'
<1>1. CASE Convert
  <2>1. /\ conv > 0 /\ conv' = conv - 1 /\ UNCHANGED <<hung, chen, isr, st, soft, cut>>
        /\ fill' = IF ~chen THEN fill ELSE IF fill + 1 = 2 * Half THEN 0 ELSE fill + 1
    BY <1>1 DEF Convert, HwRest
  <2>2. \/ chen /\ fill + 1 = Half /\ stat' = stat \cup {"HALF"} /\ dmaIf' = TRUE
        \/ chen /\ fill + 1 = 2 * Half /\ stat' = stat \cup {"DONE"} /\ dmaIf' = TRUE
        \/ UNCHANGED <<stat, dmaIf>>
    BY <1>1 DEF Convert, Raise
  <2>3. conv' \in 0 .. 2 * Half /\ fill' \in 0 .. 2 * Half - 1
    BY <2>1, HalfIsNat
  <2>4. FlightInv'
    BY <2>1, HalfIsNat
  <2>5. ~cut /\ chen /\ fill + 1 = 2 * Half => soft.burst /\ conv' = 0
    BY <2>1, HalfIsNat
  <2>6. ~cut => soft.burst /\ isr # "after" /\ (chen => "DONE" \notin stat)
    BY <2>1, HalfIsNat
  <2>7. stat' \subseteq Flags /\ dmaIf' \in BOOLEAN /\ stat \subseteq stat'
    BY <2>2
  <2>8. DoneInv' /\ RequestInv'
    <3>1. CASE chen /\ fill + 1 = Half /\ stat' = stat \cup {"HALF"} /\ dmaIf' = TRUE
      BY <2>1, <2>6, <3>1
    <3>2. CASE chen /\ fill + 1 = 2 * Half /\ stat' = stat \cup {"DONE"} /\ dmaIf' = TRUE
      BY <2>1, <2>5, <2>6, <3>2
    <3>3. CASE UNCHANGED <<stat, dmaIf>>
      BY <2>1, <2>6, <3>3
    <3> QED
      BY <2>2, <3>1, <3>2, <3>3
  <2> QED
    BY <2>1, <2>3, <2>4, <2>7, <2>8
<1>2. CASE HwOverrun
  BY <1>2 DEF HwOverrun, HwRest, Raise
<1>3. CASE HwHang
  BY <1>3 DEF HwHang, HwRest
<1> QED
  BY <1>1, <1>2, <1>3 DEF Hardware

(* A trigger begins a burst, or leaves the one in flight.                  *)
LEMMA Triggered ==
  ASSUME FlightSafe, adc_start_burst
  PROVE  conv' \in 0 .. 2 * Half /\ conv' # 0 /\ (conv = 0 => conv' = 2 * Half)
<1>1. conv = 0 => conv' = 2 * Half
  BY DEF adc_start_burst
<1>2. conv # 0 => conv' = conv \/ conv' = 2 * Half
  BY DEF adc_start_burst
<1> QED
  BY <1>1, <1>2, HalfIsNat

(* dma0_event(): the interrupt starts the next burst only after this one's DONE.*)
LEMMA FlightIsr ==
  ASSUME FlightSafe, Isr PROVE FlightSafe'
<1>1. CASE IsrEnter \/ IsrRead
  BY <1>1 DEF IsrEnter, IsrRead, IsrRest
<1>2. CASE IsrOverrun
  <2>1. CASE "OVERRUN" \notin st
    BY <1>2, <2>1 DEF IsrOverrun
  <2>2. CASE "OVERRUN" \in st /\ soft.ov + 1 >= OvLimit
    <3>1. /\ chen' = FALSE /\ isr' = "none" /\ st' = {} /\ cut' = TRUE
          /\ UNCHANGED <<conv, hung, fill>>
          /\ stat' = stat \ {"OVERRUN"} /\ dmaIf' = dmaIf
          /\ soft' = [soft EXCEPT !.run = FALSE, !.burst = FALSE, !.armed = FALSE,
                                  !.aborted = TRUE, !.ov = OvLimit]
      BY <1>2, <2>2 DEF IsrOverrun, Brake, dma0_clear
    <3>2. soft' \in [run : BOOLEAN, burst : BOOLEAN, armed : BOOLEAN, aborted : BOOLEAN,
                     ov : Nat, was : BOOLEAN]
          /\ soft'.armed = FALSE
      BY <3>1, BurstAssumption
    <3> QED
      BY <3>1, <3>2
  <2>3. CASE "OVERRUN" \in st /\ ~(soft.ov + 1 >= OvLimit)
    <3>1. /\ isr' = "HALF" /\ isr = "OVERRUN"
          /\ stat' = stat \ {"OVERRUN"} /\ UNCHANGED <<dmaIf, adc, chen, st, cut>>
          /\ soft' = [soft EXCEPT !.ov = soft.ov + 1]
      BY <1>2, <2>3 DEF IsrOverrun, dma0_clear
    <3> QED
      BY <3>1
  <2> QED
    BY <2>1, <2>2, <2>3
<1>3. CASE IsrHalf
  BY <1>3 DEF IsrHalf, dma0_clear, IsrRest
<1>4. CASE IsrDone
  BY <1>4 DEF IsrDone, dma0_clear, IsrRest
<1>5. CASE IsrAfterDone
  <2>1. /\ isr = "after" /\ isr' = "none"
        /\ UNCHANGED <<hung, fill, stat, dmaIf, chen, st, cut>>
    BY <1>5 DEF IsrAfterDone, IsrRest
  <2>2. \/ adc_start_burst /\ soft' = [soft EXCEPT !.burst = TRUE]
        \/ conv' = conv /\ soft' = [soft EXCEPT !.burst = FALSE, !.run = soft.run /\ left = 0]
    BY <1>5 DEF IsrAfterDone
  <2>3. CASE adc_start_burst /\ soft' = [soft EXCEPT !.burst = TRUE]
    <3>1. conv' \in 0 .. 2 * Half /\ conv' # 0 /\ (~cut => conv' = 2 * Half /\ fill = 2 * Half - conv')
      BY <2>1, <2>3, Triggered, HalfIsNat
    <3> QED
      BY <2>1, <2>3, <3>1
  <2>4. CASE conv' = conv /\ soft' = [soft EXCEPT !.burst = FALSE, !.run = soft.run /\ left = 0]
    BY <2>1, <2>4
  <2> QED
    BY <2>2, <2>3, <2>4
<1> QED
  BY <1>1, <1>2, <1>3, <1>4, <1>5 DEF Isr

(* The steps the commands take, each between two of the interrupt's.       *)
LEMMA FlightCall ==
  ASSUME FlightSafe, BurstCall PROVE FlightSafe'
<1>1. CASE capture_stop \/ StartEnable
  <2>1. UNCHANGED <<adc, stat, dmaIf, chen, isr, st, cut>>
    BY <1>1 DEF capture_stop, StartEnable, Soft
  <2>2. \/ soft' = [soft EXCEPT !.run = FALSE, !.was = soft.run]
        \/ soft' = [soft EXCEPT !.run = TRUE, !.ov = 0, !.aborted = FALSE]
    BY <1>1 DEF capture_stop, StartEnable, Soft
  <2>3. /\ soft' \in [run : BOOLEAN, burst : BOOLEAN, armed : BOOLEAN, aborted : BOOLEAN,
                      ov : Nat, was : BOOLEAN]
        /\ soft'.burst <=> soft.burst
        /\ soft'.armed <=> soft.armed
    <3>1. CASE soft' = [soft EXCEPT !.run = FALSE, !.was = soft.run]
      BY <3>1
    <3>2. CASE soft' = [soft EXCEPT !.run = TRUE, !.ov = 0, !.aborted = FALSE]
      BY <3>2
    <3> QED
      BY <2>2, <3>1, <3>2
  <2> QED
    BY <2>1, <2>3
<1>2. CASE SettleWait \/ SetNext \/ SetNow \/ Mark \/ Wait \/ Then \/ SetLeft
  <2>1. UNCHANGED <<adc, stat, dmaIf, chen, isr, st, soft, cut>>
    <3> DEFINE Same == UNCHANGED <<adc, stat, dmaIf, chen, isr, st, soft, cut>>
    <3>1. SettleWait => Same
      BY DEF SettleWait
    <3>2. SetNext \/ SetNow => Same
      BY DEF SetNext, SetNow
    <3>3. Mark \/ SetLeft => Same
      BY DEF Mark, SetLeft
    <3>4. Wait => Same
      BY DEF Wait
    <3>5. Then => Same
      BY DEF Then
    <3> QED
      BY <1>2, <3>1, <3>2, <3>3, <3>4, <3>5
  <2> QED
    BY <2>1
<1>3. CASE SettleAbort
  BY <1>3, HalfIsNat DEF SettleAbort, At
<1>4. CASE SettleDown
  BY <1>4 DEF SettleDown, At
<1>5. CASE StartArm
  <2>1. UNCHANGED <<conv, hung, isr, st>> /\ isr = "none"
    BY <1>5 DEF StartArm, At
  <2>2. CASE soft.armed
    BY <1>5, <2>1, <2>2 DEF StartArm
  <2>3. CASE ~soft.armed
    <3>1. /\ fill' = 0 /\ stat' = {} /\ dmaIf' = FALSE /\ chen' = TRUE
          /\ soft' = [soft EXCEPT !.armed = TRUE] /\ cut' = (conv # 0 \/ soft.burst)
      BY <1>5, <2>3 DEF StartArm
    <3> QED
      BY <2>1, <3>1, HalfIsNat
  <2> QED
    BY <2>2, <2>3
<1>6. CASE StartBurst
  <2>1. UNCHANGED <<hung, fill, stat, dmaIf, chen, isr, st>> /\ isr = "none"
    BY <1>6 DEF StartBurst, At
  <2>2. CASE soft.burst
    BY <1>6, <2>1, <2>2 DEF StartBurst
  <2>3. CASE ~soft.burst
    <3>1. adc_start_burst /\ soft' = [soft EXCEPT !.burst = TRUE] /\ cut' = (cut \/ ~chen)
      BY <1>6, <2>3 DEF StartBurst
    <3> QED
      <4>1. /\ conv' \in 0 .. 2 * Half /\ conv' # 0
            /\ ~cut => conv' = 2 * Half
            /\ ~cut /\ chen => fill = 2 * Half - conv'
        BY <2>3, <3>1, Triggered, HalfIsNat
      <4>2. ~cut /\ chen => "DONE" \notin stat
        BY <2>3
      <4> QED
        BY <2>1, <3>1, <4>1, <4>2
  <2> QED
    BY <2>2, <2>3
<1> QED
  BY <1>1, <1>2, <1>3, <1>4, <1>5, <1>6 DEF BurstCall

(* Typing a command changes nothing but what is to be done.                *)
LEMMA FlightCommand ==
  ASSUME FlightSafe, BurstCommand PROVE FlightSafe'
<1>1. UNCHANGED <<adc, stat, dmaIf, chen, isr, st, soft, cut>>
  BY DEF BurstCommand, Start, Stop, Input, Samc, Settle, Oneshot, Rate, Selftest, Type
<1> QED
  BY <1>1

(* The invariant of every behaviour. *)
THEOREM FlightSafety == BurstSpec => []FlightSafe
<1>1. BurstInit => FlightSafe
  BY FlightInit
<1>2. FlightSafe /\ [BurstNext]_burstVars => FlightSafe'
  <2>1. FlightSafe /\ UNCHANGED burstVars => FlightSafe'
    BY DEF burstVars
  <2> QED
    BY <2>1, FlightHardware, FlightIsr, FlightCall, FlightCommand DEF BurstNext
<1> HIDE DEF FlightSafe
<1> QED
  BY <1>1, <1>2, PTL DEF BurstSpec

(* No burst is begun while one is in flight: burst_active is set before a  *)
(* burst begins, and only its own DONE, seen with the burst over, or the   *)
(* core taken down resets it - and the brake, which leaves the burst going *)
(* and is what `cut' excepts (capture.c, dma0_event(), capture_start(),    *)
(* capture_settle()).                                                      *)
THEOREM NeverClashes == BurstSpec => NoClash
<1> DEFINE Begins == conv' > conv => conv = 0 \/ cut
<1>1. ASSUME FlightSafe, [BurstNext]_burstVars PROVE Begins
  <2>1. \/ conv' = conv - 1 \/ conv' = conv \/ conv' = 0
        \/ IsrAfterDone \/ (StartBurst /\ ~soft.burst)
    <3>1. CASE Hardware
      BY <3>1 DEF Hardware, Convert, HwOverrun, HwHang
    <3>2. CASE Isr
      BY <3>2 DEF Isr, IsrEnter, IsrRead, IsrOverrun, IsrHalf, IsrDone
    <3>3. CASE BurstCall
      BY <3>3, Zenon DEF BurstCall, capture_stop, SettleWait, SettleAbort, SettleDown, StartArm,
         StartEnable, StartBurst, SetNext, SetNow, Mark, Wait, Then, SetLeft, Soft
    <3>4. CASE BurstCommand
      BY <3>4 DEF BurstCommand, Start, Stop, Input, Samc, Settle, Oneshot, Rate, Selftest, Type
    <3>5. CASE UNCHANGED burstVars
      BY <3>5 DEF burstVars
    <3> QED
      BY <1>1, <3>1, <3>2, <3>3, <3>4, <3>5 DEF BurstNext
  <2>2. IsrAfterDone => conv = 0 \/ cut
    BY <1>1 DEF IsrAfterDone
  <2>3. StartBurst /\ ~soft.burst => conv = 0 \/ cut
    BY <1>1
  <2>4. conv \in Nat
    BY <1>1, HalfIsNat
  <2> QED
    BY <2>1, <2>2, <2>3, <2>4
<1>2. FlightSafe /\ [BurstNext]_burstVars => [Begins]_burstVars
  BY <1>1
<1> HIDE DEF Begins, FlightSafe
<1>3. BurstSpec => [][Begins]_burstVars
  BY <1>2, FlightSafety, PTL DEF BurstSpec
<1> QED
  BY <1>3 DEF NoClash, Begins

----------------------------------------------------------------------------
(* The calls still to make: what each call of a command relies on being    *)
(* behind or ahead of it.  Where a command begins, no "down" comes first;  *)
(* once it runs, a "down" at its head has had its "abort".                 *)
IsSequence(s) == \E S : s \in Seq(S)
Later(s, i, f) == \E j \in 1 .. Len(s) : i < j /\ s[j][1] = f
Plain(s) ==
  /\ IsSequence(s)
  /\ \A i \in 1 .. Len(s) : s[i][1] \notin {"down", "arm", "pinsel", "samc", "pend", "then"}
InPlace(s, i) ==
  /\ s[i][1] = "down" /\ i > 1 => s[i - 1][1] = "abort"
  /\ s[i][1] \in {"pinsel", "samc"} => Later(s, i, "pend")
  /\ s[i][1] = "pend" => Later(s, i, "apply")
  /\ s[i][1] = "arm" => Later(s, i, "start")
  /\ s[i][1] = "then" => Plain(s[i][2].do)
Left(s) == IsSequence(s) /\ \A i \in 1 .. Len(s) : InPlace(s, i)
Program(s) == Left(s) /\ (s # <<>> => s[1][1] # "down")
ToDo(s, f) == \E i \in 1 .. Len(s) : s[i][1] = f

(* Two sequences of calls, one after the other.                            *)
LEMMA Joining ==
  ASSUME NEW s, NEW t, IsSequence(s), IsSequence(t)
  PROVE  /\ IsSequence(s \o t)
         /\ Len(s) \in Nat /\ Len(t) \in Nat
         /\ Len(s \o t) = Len(s) + Len(t)
         /\ \A i \in 1 .. Len(s) : (s \o t)[i] = s[i]
         /\ \A i \in 1 .. Len(t) : (s \o t)[Len(s) + i] = t[i]
         /\ s = <<>> <=> Len(s) = 0
         /\ s # <<>> => Len(s) > 0
<1>1. PICK S : s \in Seq(S)
  BY DEF IsSequence
<1>2. PICK T : t \in Seq(T)
  BY DEF IsSequence
<1>3. s \in Seq(S \cup T) /\ t \in Seq(S \cup T)
  <2>1. \A U, V, q : q \in Seq(U) => q \in Seq(U \cup V)
    <3> SUFFICES ASSUME NEW U, NEW V, NEW q \in Seq(U) PROVE q \in Seq(U \cup V)
      OBVIOUS
    <3>1. Len(q) \in Nat /\ q \in [1 .. Len(q) -> U]
      OBVIOUS
    <3>2. q \in [1 .. Len(q) -> U \cup V]
      BY <3>1
    <3> QED
      BY <3>1, <3>2, SeqDef
  <2>2. S \cup T = T \cup S
    OBVIOUS
  <2> QED
    BY <1>1, <1>2, <2>1, <2>2
<1>4. s \o t \in Seq(S \cup T)
  BY <1>3
<1> QED
  BY <1>3, <1>4 DEF IsSequence

(* Two programs, one after the other, are one.                             *)
LEMMA Joined ==
  ASSUME NEW s, NEW t, Left(s), Program(t)
  PROVE  /\ Left(s \o t) /\ (Program(s) => Program(s \o t))
         /\ \A f : ToDo(s, f) \/ ToDo(t, f) => ToDo(s \o t, f)
<1> DEFINE u == s \o t
<1>1. /\ IsSequence(s) /\ IsSequence(t) /\ IsSequence(u)
      /\ Len(s) \in Nat /\ Len(t) \in Nat /\ Len(u) = Len(s) + Len(t)
      /\ \A i \in 1 .. Len(s) : u[i] = s[i]
      /\ \A i \in 1 .. Len(t) : u[Len(s) + i] = t[i]
      /\ s = <<>> <=> Len(s) = 0
      /\ t = <<>> <=> Len(t) = 0
      /\ u = <<>> <=> Len(u) = 0
  BY Joining DEF Left, Program
<1> HIDE DEF u
<1>2. ASSUME NEW i \in 1 .. Len(s) PROVE InPlace(u, i)
  <2>1. /\ InPlace(s, i) /\ u[i] = s[i]
        /\ i > 1 => u[i - 1] = s[i - 1]
        /\ \A j \in 1 .. Len(s) : j \in 1 .. Len(u) /\ u[j] = s[j]
    BY <1>1, <1>2 DEF Left
  <2>2. \A f : Later(s, i, f) => Later(u, i, f)
    BY <2>1 DEF Later
  <2> QED
    BY <2>1, <2>2 DEF InPlace
<1>3. ASSUME NEW i \in 1 .. Len(t) PROVE InPlace(u, Len(s) + i)
  <2>1. /\ InPlace(t, i) /\ u[Len(s) + i] = t[i]
        /\ i > 1 => i - 1 \in 1 .. Len(t) /\ u[Len(s) + (i - 1)] = t[i - 1]
        /\ \A j \in 1 .. Len(t) : Len(s) + j \in 1 .. Len(u) /\ u[Len(s) + j] = t[j]
    BY <1>1, <1>3 DEF Left, Program
  <2>2. ASSUME NEW f, Later(t, i, f) PROVE Later(u, Len(s) + i, f)
    <3>1. PICK j \in 1 .. Len(t) : i < j /\ t[j][1] = f
      BY <2>2 DEF Later
    <3>2. Len(s) + j \in 1 .. Len(u) /\ Len(s) + i < Len(s) + j /\ u[Len(s) + j][1] = f
      BY <1>1, <2>1, <3>1
    <3> QED
      BY <3>2 DEF Later
  <2>3. i = 1 => t[i][1] # "down"
    BY <1>1, <1>3 DEF Program
  <2>4. i > 1 => Len(s) + i - 1 = Len(s) + (i - 1)
    BY <1>1
  <2> QED
    BY <2>1, <2>2, <2>3, <2>4 DEF InPlace
<1>4. ASSUME NEW k \in 1 .. Len(u) PROVE InPlace(u, k)
  <2>1. CASE k <= Len(s)
    BY <1>1, <1>2, <2>1
  <2>2. CASE k > Len(s)
    <3>1. k - Len(s) \in 1 .. Len(t) /\ Len(s) + (k - Len(s)) = k
      BY <1>1, <2>2
    <3> QED
      BY <1>3, <3>1
  <2> QED
    BY <1>1, <2>1, <2>2
<1>5. Program(s) /\ u # <<>> => u[1][1] # "down"
  <2>1. CASE s = <<>>
    BY <1>1, <2>1 DEF Program
  <2>2. CASE s # <<>>
    BY <1>1, <2>2 DEF Program
  <2> QED
    BY <2>1, <2>2
<1>6. ASSUME NEW f, ToDo(s, f) \/ ToDo(t, f) PROVE ToDo(u, f)
  <2>1. \A i \in 1 .. Len(s) : i \in 1 .. Len(u)
    BY <1>1
  <2>2. \A i \in 1 .. Len(t) : Len(s) + i \in 1 .. Len(u)
    BY <1>1
  <2> QED
    BY <1>1, <1>6, <2>1, <2>2 DEF ToDo
<1> QED
  BY <1>1, <1>4, <1>5, <1>6 DEF Left, Program, u

(* What is left when the first call is made.                               *)
LEMMA Popped ==
  ASSUME NEW s, Left(s), s # <<>>
  PROVE  /\ Left(Tail(s)) /\ s[1] = Head(s)
         /\ Head(s)[1] # "abort" => Program(Tail(s))
         /\ \A f : ToDo(s, f) => Head(s)[1] = f \/ ToDo(Tail(s), f)
         /\ Head(s)[1] \in {"pinsel", "samc"} => ToDo(Tail(s), "pend")
         /\ Head(s)[1] = "pend" => ToDo(Tail(s), "apply")
         /\ Head(s)[1] = "arm" => ToDo(Tail(s), "start")
         /\ Head(s)[1] = "then" => Plain(Head(s)[2].do)
<1> DEFINE t == Tail(s)
<1>1. PICK S : s \in Seq(S)
  BY DEF Left, IsSequence
<1>2. /\ t \in Seq(S) /\ Len(s) \in Nat /\ Len(s) > 0 /\ Len(t) = Len(s) - 1 /\ s[1] = Head(s)
      /\ \A i \in 1 .. Len(t) : t[i] = s[i + 1]
      /\ t # <<>> => Len(t) > 0
  BY <1>1
<1> HIDE DEF t
<1>3. \A i \in 1 .. Len(t) : i + 1 \in 1 .. Len(s)
  BY <1>2
<1>4. ASSUME NEW i \in 1 .. Len(s), NEW f, Later(s, i, f)
      PROVE  i > 1 => Later(t, i - 1, f)
  <2>1. PICK j \in 1 .. Len(s) : i < j /\ s[j][1] = f
    BY <1>4 DEF Later
  <2>2. i > 1 => j - 1 \in 1 .. Len(t) /\ i - 1 < j - 1 /\ t[j - 1] = s[j]
    BY <1>2, <2>1
  <2> QED
    BY <2>1, <2>2 DEF Later
<1>5. ASSUME NEW i \in 1 .. Len(t) PROVE InPlace(t, i)
  <2>1. i + 1 \in 1 .. Len(s) /\ i + 1 > 1 /\ (i + 1) - 1 = i /\ t[i] = s[i + 1] /\ InPlace(s, i + 1)
    BY <1>2, <1>3 DEF Left
  <2>2. \A f : Later(s, i + 1, f) => Later(t, i, f)
    BY <1>4, <2>1
  <2>3. i > 1 => t[i - 1] = s[i]
    BY <1>2
  <2> QED
    BY <2>1, <2>2, <2>3 DEF InPlace
<1>6. Left(t)
  BY <1>2, <1>5 DEF Left, IsSequence
<1>7. Head(s)[1] # "abort" => Program(t)
  <2>1. t # <<>> => 2 \in 1 .. Len(s) /\ t[1] = s[2] /\ InPlace(s, 2)
    BY <1>2 DEF Left
  <2> QED
    BY <1>2, <1>6, <2>1 DEF Program, InPlace
<1>8. \A f : ToDo(s, f) => Head(s)[1] = f \/ ToDo(t, f)
  <2> SUFFICES ASSUME NEW f, NEW i \in 1 .. Len(s), s[i][1] = f, i > 1 PROVE ToDo(t, f)
    BY <1>2 DEF ToDo
  <2>1. i - 1 \in 1 .. Len(t) /\ t[i - 1] = s[i]
    BY <1>2
  <2> QED
    BY <2>1 DEF ToDo
<1>9. \A f : Later(s, 1, f) => ToDo(t, f)
  <2> SUFFICES ASSUME NEW f, NEW j \in 1 .. Len(s), 1 < j, s[j][1] = f PROVE ToDo(t, f)
    BY DEF Later
  <2>1. j - 1 \in 1 .. Len(t) /\ t[j - 1] = s[j]
    BY <1>2
  <2> QED
    BY <2>1 DEF ToDo
<1>10. InPlace(s, 1)
  BY <1>2 DEF Left
<1> QED
  BY <1>2, <1>6, <1>7, <1>8, <1>9, <1>10 DEF InPlace, t

(* A sequence with none of the calls that rely on others is a program.     *)
LEMMA PlainIsProgram == ASSUME NEW s, Plain(s) PROVE Program(s)
<1>1. IsSequence(s) /\ s # <<>> => 1 \in 1 .. Len(s)
  BY DEF IsSequence
<1> QED
  BY <1>1 DEF Plain, Program, Left, InPlace

(* The pieces the commands are made of.                                    *)
LEMMA Pieces ==
  /\ Program(<<>>) /\ Program(capture_settle) /\ Program(capture_start)
  /\ Program(<<Do("mark")>>) /\ Program(<<Do("stop")>>)
  /\ Plain(<<Do("stop")>>)
  /\ \A in : Program(capture_set_input(in))
  /\ \A n : /\ Program(<<Do("mark"), Call("left", n)>>) /\ Program(<<Call("wait", n)>>)
            /\ Plain(wait_for_blocks(n))
            /\ Program(<<Call("wait", 2 * n), Call("left", 0), Do("stop")>>)
  /\ \A p, q : Plain(p) /\ Plain(q) =>
       Program(<<Call("then", [if |-> "ok", do |-> p]),
                 Call("then", [if |-> "was stopped", do |-> q])>>)
<1> USE DEF Do, Call, OrElse
<1>1. Plain(<<>>) /\ Plain(<<Do("mark")>>) /\ Plain(<<Do("stop")>>)
  <2>1. IsSequence(<<>>) /\ IsSequence(<<Do("mark")>>) /\ IsSequence(<<Do("stop")>>)
    <3>1. /\ <<>> \in Seq({})
          /\ <<Do("mark")>> \in Seq({Do("mark")}) /\ <<Do("stop")>> \in Seq({Do("stop")})
      OBVIOUS
    <3> QED
      BY <3>1 DEF IsSequence
  <2> QED
    BY <2>1 DEF Plain
<1>2. ASSUME NEW n
      PROVE  /\ Plain(<<Do("mark"), Call("left", n)>>) /\ Plain(<<Call("wait", n)>>)
             /\ Plain(wait_for_blocks(n))
             /\ Plain(<<Call("wait", 2 * n), Call("left", 0), Do("stop")>>)
  <2>1. /\ <<Do("mark"), Call("left", n)>> \in Seq({Do("mark"), Call("left", n)})
        /\ <<Call("wait", n)>> \in Seq({Call("wait", n)})
        /\ wait_for_blocks(n) \in Seq({Do("mark"), Call("wait", n)})
        /\ <<Call("wait", 2 * n), Call("left", 0), Do("stop")>>
             \in Seq({Call("wait", 2 * n), Call("left", 0), Do("stop")})
    BY DEF wait_for_blocks
  <2>2. /\ IsSequence(<<Do("mark"), Call("left", n)>>) /\ IsSequence(<<Call("wait", n)>>)
        /\ IsSequence(wait_for_blocks(n))
        /\ IsSequence(<<Call("wait", 2 * n), Call("left", 0), Do("stop")>>)
    BY <2>1 DEF IsSequence
  <2> QED
    BY <2>2 DEF Plain, wait_for_blocks
<1>3. Program(capture_settle)
  <2> DEFINE s == capture_settle
  <2>1. /\ s \in Seq({Do("stop"), Do("burst over"), Do("abort"), Do("down")})
        /\ Len(s) = 4 /\ s # <<>>
        /\ s[1][1] = "stop" /\ s[2][1] = "burst over" /\ s[3][1] = "abort" /\ s[4][1] = "down"
    BY DEF capture_settle
  <2> HIDE DEF s
  <2>2. IsSequence(s)
    BY <2>1 DEF IsSequence
  <2>3. ASSUME NEW i \in 1 .. Len(s) PROVE InPlace(s, i)
    <3>0. i \in 1 .. 4
      BY <2>1
    <3>1. i = 1 \/ i = 2 \/ i = 3 \/ i = 4
      BY <3>0
    <3>2. 4 - 1 = 3
      OBVIOUS
    <3> QED
      BY <2>1, <3>1, <3>2 DEF InPlace
  <2>4. Program(s)
    BY <2>1, <2>2, <2>3 DEF Program, Left
  <2> QED
    BY <2>4 DEF s
<1>4. ASSUME NEW in PROVE Program(capture_set_input(in))
  <2> DEFINE s == capture_set_input(in)
  <2>1. /\ s \in Seq({Call("pinsel", in[1]), Call("samc", in[2]), Do("pend"), Do("apply")})
        /\ Len(s) = 4 /\ s # <<>>
        /\ s[1][1] = "pinsel" /\ s[2][1] = "samc" /\ s[3][1] = "pend" /\ s[4][1] = "apply"
    BY DEF capture_set_input
  <2> HIDE DEF s
  <2>2. IsSequence(s)
    BY <2>1 DEF IsSequence
  <2>3. ASSUME NEW i \in 1 .. Len(s) PROVE InPlace(s, i)
    <3>1. i = 1 \/ i = 2 \/ i = 3 \/ i = 4
      BY <2>1
    <3>2. /\ i < 3 => Later(s, i, "pend")
          /\ i < 4 => Later(s, i, "apply")
      <4>1. 3 \in 1 .. Len(s) /\ 4 \in 1 .. Len(s)
        BY <2>1
      <4> QED
        BY <2>1, <4>1 DEF Later
    <3> QED
      BY <2>1, <3>1, <3>2 DEF InPlace
  <2>4. Program(s)
    BY <2>1, <2>2, <2>3 DEF Program, Left
  <2> QED
    BY <2>4 DEF s
<1>5. ASSUME NEW p, NEW q, Plain(p), Plain(q)
      PROVE  Program(<<Call("then", [if |-> "ok", do |-> p]),
                       Call("then", [if |-> "was stopped", do |-> q])>>)
  <2> DEFINE a == Call("then", [if |-> "ok", do |-> p])
             b == Call("then", [if |-> "was stopped", do |-> q])
             s == <<a, b>>
  <2>1. a[1] = "then" /\ a[2].do = p /\ b[1] = "then" /\ b[2].do = q
    OBVIOUS
  <2> HIDE DEF a, b
  <2>2. s \in Seq({a, b}) /\ Len(s) = 2 /\ s # <<>> /\ s[1] = a /\ s[2] = b
    OBVIOUS
  <2> HIDE DEF s
  <2>3. IsSequence(s)
    BY <2>2 DEF IsSequence
  <2>4. ASSUME NEW i \in 1 .. Len(s) PROVE InPlace(s, i)
    <3>1. i = 1 \/ i = 2
      BY <2>2
    <3> QED
      BY <1>5, <2>1, <2>2, <3>1 DEF InPlace
  <2>5. Program(s)
    BY <2>1, <2>2, <2>3, <2>4 DEF Program, Left
  <2> QED
    BY <2>5 DEF s, a, b
<1>6. Program(capture_start)
  <2> DEFINE s == capture_start
  <2>1. /\ s \in Seq({Do("arm"), Do("enable"), Do("start")}) /\ Len(s) = 3 /\ s # <<>>
        /\ s[1][1] = "arm" /\ s[2][1] = "enable" /\ s[3][1] = "start"
    BY DEF capture_start
  <2> HIDE DEF s
  <2>2. IsSequence(s)
    BY <2>1 DEF IsSequence
  <2>3. ASSUME NEW i \in 1 .. Len(s) PROVE InPlace(s, i)
    <3>1. i = 1 \/ i = 2 \/ i = 3
      BY <2>1
    <3>2. i = 1 => Later(s, i, "start")
      <4>1. 3 \in 1 .. Len(s)
        BY <2>1
      <4> QED
        BY <2>1, <4>1 DEF Later
    <3> QED
      BY <2>1, <3>1, <3>2 DEF InPlace
  <2>4. Program(s)
    BY <2>1, <2>2, <2>3 DEF Program, Left
  <2> QED
    BY <2>4 DEF s
<1> QED
  BY <1>1, <1>2, <1>3, <1>4, <1>5, <1>6, PlainIsProgram

(* Every command is a program.                                             *)
LEMMA Commands ==
  ASSUME BurstCommand
  PROVE  /\ Program(todo') /\ Rest /\ blocks' = BlockCap
         /\ UNCHANGED <<adc, stat, dmaIf, chen, isr, st, soft, left, input, next, pending, cut>>
<1>1. ASSUME NEW s, NEW t, Program(s), Program(t) PROVE Program(s \o t)
  BY <1>1, Joined DEF Program
<1>2. ASSUME NEW k, NEW p, Program(p), Type(k, p)
      PROVE  /\ Program(todo') /\ Rest /\ blocks' = BlockCap
             /\ UNCHANGED <<adc, stat, dmaIf, chen, isr, st, soft, left, input, next, pending, cut>>
  BY <1>2 DEF Type, Begin
<1>3. ASSUME NEW n PROVE Program(capture_oneshot_n(n))
  <2>1. Program(capture_settle \o <<Do("mark"), Call("left", n)>>)
    BY <1>1, Pieces
  <2>2. Program(capture_settle \o <<Do("mark"), Call("left", n)>> \o capture_start)
    BY <1>1, <2>1, Pieces
  <2> QED
    BY <1>1, <2>2, Pieces DEF capture_oneshot_n
<1>4. Program(capture_measure_rate(3))
  <2>1. Program(capture_settle \o <<Do("mark")>>)
    BY <1>1, Pieces
  <2>2. Program(capture_settle \o <<Do("mark")>> \o capture_start)
    BY <1>1, <2>1, Pieces
  <2>3. Program(capture_settle \o <<Do("mark")>> \o capture_start \o <<Call("wait", 3)>>)
    BY <1>1, <2>2, Pieces
  <2> QED
    BY <1>1, <2>3, Pieces DEF capture_measure_rate
<1>5. Program(capture_selftest(2))
  <2>1. Program(capture_settle \o capture_set_input(Reference))
    BY <1>1, Pieces
  <2>2. Program(capture_settle \o capture_set_input(Reference) \o capture_start)
    BY <1>1, <2>1, Pieces
  <2>3. Program(capture_settle \o capture_set_input(Reference) \o capture_start
                \o wait_for_blocks(2))
    BY <1>1, <2>2, Pieces, PlainIsProgram
  <2>4. Program(capture_settle \o capture_set_input(Reference) \o capture_start
                \o wait_for_blocks(2) \o capture_set_input(input))
    BY <1>1, <2>3, Pieces
  <2>5. Program(<<Call("then", [if |-> "ok", do |-> wait_for_blocks(2)]),
                  Call("then", [if |-> "was stopped", do |-> <<Do("stop")>>])>>)
    BY Pieces
  <2> QED
    BY <1>1, <2>4, <2>5 DEF capture_selftest
<1> QED
  BY <1>2, <1>3, <1>4, <1>5, Pieces
     DEF BurstCommand, Start, Stop, Input, Samc, Settle, Oneshot, Rate, Selftest

----------------------------------------------------------------------------
(* A burst nobody cut off either has the channel on, or none is meant to   *)
(* be in flight; ended, its DONE is still to be acted on.  A "down" at the *)
(* head finds no burst: the "abort" before it took the last one away.      *)
EndInv ==
  /\ Left(todo) /\ (Now("down") => ~soft.burst \/ cut)
  /\ soft.burst /\ ~cut => chen /\ (conv = 0 => "DONE" \in stat \/ isr = "after")

(* An input change asked for is carried out already, or by the "apply" to  *)
(* come, or by the interrupt of the burst in flight or about to start.     *)
SwitchInv ==
  /\ \/ ToDo(todo, "apply")
     \/ pending /\ (soft.burst \/ cut \/ ToDo(todo, "start"))
     \/ ~pending /\ input = next
  /\ ToDo(todo, "pend") \/ pending \/ input = next

CallsInv == pending \in BOOLEAN /\ EndInv /\ SwitchInv

(* A call popped is one of a program, and what stays is left in place.     *)
LEMMA CallMade ==
  ASSUME Left(todo), NEW f, Now(f), Done
  PROVE  /\ Left(todo')
         /\ (f # "abort" => ~Now("down")')
         /\ \A g : ToDo(todo, g) /\ g # f => ToDo(todo', g)
         /\ f \in {"pinsel", "samc"} => ToDo(todo', "pend")
         /\ f = "pend" => ToDo(todo', "apply")
         /\ f = "arm" => ToDo(todo', "start")
<1>1. todo # <<>> /\ Head(todo)[1] = f /\ todo' = Tail(todo)
  BY DEF Now, Done, Leave
<1>2. /\ Left(todo') /\ (f # "abort" => Program(todo'))
      /\ \A g : ToDo(todo, g) /\ g # f => ToDo(todo', g)
      /\ f \in {"pinsel", "samc"} => ToDo(todo', "pend")
      /\ f = "pend" => ToDo(todo', "apply")
      /\ f = "arm" => ToDo(todo', "start")
  BY <1>1, Popped
<1>3. Program(todo') => ~Now("down")'
  <2>1. todo' # <<>> /\ Left(todo') => todo'[1] = Head(todo')
    BY Popped
  <2> QED
    BY <2>1 DEF Program, Now
<1> QED
  BY <1>2, <1>3

(* The core's steps end a burst or raise its flags.                        *)
LEMMA CallsHardware ==
  ASSUME FlightSafe, CallsInv, Hardware PROVE CallsInv'
<1>1. /\ UNCHANGED <<todo, chen, isr, soft, input, next, pending, cut>>
      /\ stat \subseteq stat'
  BY DEF Hardware, Convert, HwOverrun, HwHang, HwRest, Raise
<1>5. ~cut /\ chen /\ conv' = 0 => conv = 0 \/ "DONE" \in stat'
  <2>1. CASE Convert
    <3>1. conv' = conv - 1 /\ (chen /\ fill + 1 = 2 * Half /\ fill + 1 # Half => "DONE" \in stat')
      BY <2>1 DEF Convert, Raise
    <3>2. ~cut /\ chen /\ conv' = 0 /\ conv # 0 => fill + 1 = 2 * Half /\ fill + 1 # Half
      BY <3>1, HalfIsNat
    <3> QED
      BY <3>1, <3>2
  <2>2. CASE HwOverrun \/ HwHang
    BY <2>2 DEF HwOverrun, HwHang
  <2> QED
    BY <2>1, <2>2 DEF Hardware
<1>2. SwitchInv' /\ pending' \in BOOLEAN
  BY <1>1 DEF CallsInv, SwitchInv
<1>3. Left(todo') /\ (Now("down")' => ~soft'.burst \/ cut')
  BY <1>1 DEF CallsInv, EndInv, Now
<1>4. soft'.burst /\ ~cut' => chen' /\ (conv' = 0 => "DONE" \in stat' \/ isr' = "after")
  BY <1>1, <1>5 DEF CallsInv, EndInv
<1> QED
  BY <1>2, <1>3, <1>4 DEF CallsInv, EndInv

(* The interrupt: the brake cuts off, DONE carries the input change out.   *)
LEMMA CallsIsr ==
  ASSUME FlightSafe, CallsInv, Isr PROVE CallsInv'
<1>1. todo' = todo /\ next' = next
  BY DEF Isr, IsrEnter, IsrRead, IsrOverrun, IsrHalf, IsrDone, IsrAfterDone, IsrRest
<1>2. isr # "none" => chen
  OBVIOUS
<1>3. CASE IsrEnter \/ IsrRead \/ IsrHalf \/ IsrDone
  <2>1. UNCHANGED <<conv, chen, soft, input, pending, cut>>
        /\ ("DONE" \in stat => "DONE" \in stat' \/ isr' = "after")
    BY <1>3 DEF IsrEnter, IsrRead, IsrHalf, IsrDone, IsrRest, dma0_clear
  <2>2. isr # "after"
    BY <1>3 DEF IsrEnter, IsrRead, IsrHalf, IsrDone
  <2> QED
    BY <1>1, <2>1, <2>2 DEF CallsInv, EndInv, SwitchInv, Now
<1>4. CASE IsrOverrun
  <2>1. UNCHANGED <<input, pending>> /\ isr # "after"
    BY <1>4 DEF IsrOverrun
  <2>2. \/ soft'.burst = FALSE /\ cut' = TRUE
        \/ UNCHANGED <<conv, chen, cut>> /\ (soft'.burst <=> soft.burst)
           /\ ("DONE" \in stat => "DONE" \in stat')
    BY <1>4 DEF IsrOverrun, Brake, dma0_clear
  <2> QED
    BY <1>1, <2>1, <2>2 DEF CallsInv, EndInv, SwitchInv, Now
<1>5. CASE IsrAfterDone
  <2>1. (~cut => soft.burst) /\ chen /\ chen' = chen /\ cut' = cut /\ pending' = FALSE
        /\ input' = (IF pending THEN next ELSE input)
        /\ (soft'.burst => adc_start_burst)
    BY <1>5 DEF IsrAfterDone, IsrRest
  <2>2. (Now("down") => cut) /\ (soft'.burst => conv' # 0)
    BY <2>1, Triggered DEF CallsInv, EndInv
  <2> QED
    BY <1>1, <2>1, <2>2 DEF CallsInv, EndInv, SwitchInv, Now
<1> QED
  BY <1>3, <1>4, <1>5 DEF Isr

(* Each call, the next one then at the head.                               *)
LEMMA CallsCall ==
  ASSUME FlightSafe, CallsInv, BurstCall PROVE CallsInv'
<1>1. Left(todo) /\ pending \in BOOLEAN
  BY DEF CallsInv, EndInv
<1>2. CASE capture_stop \/ StartEnable
  <2>1. \E f \in {"stop", "enable"} : Now(f) /\ Done
    BY <1>2 DEF capture_stop, StartEnable, Soft, At
  <2>2. UNCHANGED <<conv, stat, chen, isr, input, next, pending, cut>>
        /\ (soft'.burst <=> soft.burst)
    BY <1>2 DEF capture_stop, StartEnable, Soft
  <2>3. Left(todo') /\ ~Now("down")' /\ \A g \in {"apply", "pend", "start"} : ToDo(todo, g) => ToDo(todo', g)
    BY <1>1, <2>1, CallMade
  <2> QED
    BY <2>2, <2>3 DEF CallsInv, EndInv, SwitchInv
<1>3. CASE SettleWait
  <2>1. Left(todo') /\ ~Now("down")' /\ \A g \in {"apply", "pend", "start"} : ToDo(todo, g) => ToDo(todo', g)
    <3>1. \E f : f \notin {"abort", "down", "apply", "pend", "start"} /\ Now(f) /\ Done
      BY <1>3, Zenon DEF SettleWait, At
    <3> QED
      BY <1>1, <3>1, CallMade
  <2>2. UNCHANGED <<conv, stat, chen, isr, soft, input, next, pending, cut>>
    BY <1>3, Zenon DEF SettleWait
  <2> QED
    BY <2>1, <2>2 DEF CallsInv, EndInv, SwitchInv
<1>4. CASE Mark \/ Wait \/ SetLeft
  <2>1. \E f \in {"mark", "wait", "left"} : Now(f) /\ Done
    BY <1>4 DEF Mark, Wait, SetLeft, At
  <2>2. Left(todo') /\ ~Now("down")' /\ \A g \in {"apply", "pend", "start"} : ToDo(todo, g) => ToDo(todo', g)
    BY <1>1, <2>1, CallMade
  <2>3. UNCHANGED <<conv, stat, chen, isr, soft, input, next, pending, cut>>
    <3>1. Mark => UNCHANGED <<conv, stat, chen, isr, soft, input, next, pending, cut>>
      BY DEF Mark
    <3>2. Wait => UNCHANGED <<conv, stat, chen, isr, soft, input, next, pending, cut>>
      BY DEF Wait
    <3>3. SetLeft => UNCHANGED <<conv, stat, chen, isr, soft, input, next, pending, cut>>
      BY DEF SetLeft
    <3> QED
      BY <1>4, <3>1, <3>2, <3>3
  <2> QED
    BY <2>2, <2>3 DEF CallsInv, EndInv, SwitchInv
<1>5. CASE Then
  <2>1. PICK p \in {Arg.do, <<>>} : todo' = p \o Tail(todo)
    BY <1>5, Zenon DEF Then, Instead, Leave
  <2>2. /\ UNCHANGED <<conv, stat, chen, isr, soft, input, next, pending, cut>>
        /\ todo # <<>> /\ Head(todo)[1] = "then"
    BY <1>5 DEF Then, At, Now
  <2>3. /\ Program(Tail(todo)) /\ Plain(Head(todo)[2].do)
        /\ \A g \in {"apply", "pend", "start"} : ToDo(todo, g) => ToDo(Tail(todo), g)
    BY <1>1, <2>2, Popped
  <2>4. Program(p)
    BY <2>3, PlainIsProgram, Pieces DEF Arg
  <2>5. Program(todo') /\ \A g \in {"apply", "pend", "start"} : ToDo(todo, g) => ToDo(todo', g)
    <3>1. Left(p)
      BY <2>4 DEF Program
    <3> QED
      BY <2>1, <2>3, <2>4, <3>1, Joined
  <2>6. Left(todo') /\ ~Now("down")'
    <3>1. todo' # <<>> /\ Left(todo') => todo'[1] = Head(todo')
      BY Popped
    <3> QED
      BY <2>5, <3>1 DEF Program, Now
  <2> QED
    BY <2>2, <2>5, <2>6 DEF CallsInv, EndInv, SwitchInv
<1>6. CASE SettleAbort
  <2>1. Now("abort") /\ Done /\ UNCHANGED <<stat, chen, isr, input, next, pending>>
        /\ soft'.burst = FALSE /\ (IF soft.burst THEN cut' = TRUE ELSE cut' = cut)
    BY <1>6 DEF SettleAbort, At
  <2>2. Left(todo') /\ \A g \in {"apply", "pend", "start"} : ToDo(todo, g) => ToDo(todo', g)
    BY <1>1, <2>1, CallMade
  <2> QED
    BY <2>1, <2>2 DEF CallsInv, EndInv, SwitchInv
<1>7. CASE SettleDown
  <2>1. Now("down") /\ Done /\ UNCHANGED <<input, next, pending, cut>>
        /\ (soft'.burst <=> soft.burst)
    BY <1>7 DEF SettleDown, At
  <2>2. Left(todo') /\ ~Now("down")' /\ \A g \in {"apply", "pend", "start"} : ToDo(todo, g) => ToDo(todo', g)
    BY <1>1, <2>1, CallMade
  <2>3. ~soft'.burst \/ cut'
    BY <2>1 DEF CallsInv, EndInv
  <2> QED
    BY <2>1, <2>2, <2>3 DEF CallsInv, EndInv, SwitchInv
<1>8. CASE StartArm
  <2>1. Now("arm") /\ Done /\ UNCHANGED <<conv, isr, input, next, pending>>
        /\ (soft'.burst <=> soft.burst)
        /\ (chen => UNCHANGED <<stat, chen, cut>>)
        /\ (~chen => cut' = (conv # 0 \/ soft.burst))
    BY <1>8 DEF StartArm, At
  <2>2. /\ Left(todo') /\ ~Now("down")' /\ ToDo(todo', "start")
        /\ \A g \in {"apply", "pend"} : ToDo(todo, g) => ToDo(todo', g)
    BY <1>1, <2>1, CallMade
  <2> QED
    BY <2>1, <2>2 DEF CallsInv, EndInv, SwitchInv
<1>9. CASE StartBurst
  <2>1. Now("start") /\ Done /\ UNCHANGED <<stat, chen, isr, input, next, pending>>
        /\ soft'.burst
        /\ (soft.burst => UNCHANGED <<conv, cut>>)
        /\ (~soft.burst => cut' = (cut \/ ~chen) /\ adc_start_burst)
    BY <1>9 DEF StartBurst, At
  <2>2. Left(todo') /\ ~Now("down")' /\ \A g \in {"apply", "pend"} : ToDo(todo, g) => ToDo(todo', g)
    BY <1>1, <2>1, CallMade
  <2>3. ~soft.burst => conv' # 0
    BY <2>1, Triggered
  <2>4. SwitchInv'
    BY <2>1, <2>2 DEF CallsInv, SwitchInv
  <2>5. soft.burst /\ ~cut => chen /\ (conv = 0 => "DONE" \in stat \/ isr = "after")
    BY DEF CallsInv, EndInv
  <2>6. ~cut' => chen' /\ (conv' = 0 => "DONE" \in stat' \/ isr' = "after")
    <3>1. CASE soft.burst
      BY <2>1, <2>5, <3>1
    <3>2. CASE ~soft.burst
      <4>1. cut' <=> cut \/ ~chen
        BY <2>1, <3>2
      <4> QED
        BY <2>1, <2>3, <3>2, <4>1
    <3> QED
      BY <3>1, <3>2
  <2> QED
    BY <1>1, <2>1, <2>2, <2>4, <2>6 DEF CallsInv, EndInv
<1>10. CASE SetNext
  <2>1. UNCHANGED <<conv, stat, chen, isr, soft, input, cut>> /\ Done
        /\ \/ Now("pinsel") /\ pending' = pending
           \/ Now("samc") /\ pending' = pending
           \/ Now("pend") /\ pending' = TRUE /\ next' = next
    BY <1>10 DEF SetNext, At
  <2>2. Left(todo') /\ ~Now("down")'
    BY <1>1, <2>1, CallMade
  <2>3. CASE Now("pend") /\ pending' = TRUE /\ next' = next
    <3>1. ToDo(todo', "apply")
      BY <1>1, <2>1, <2>3, CallMade
    <3> QED
      BY <2>1, <2>2, <2>3, <3>1 DEF CallsInv, EndInv, SwitchInv
  <2>4. CASE (Now("pinsel") \/ Now("samc")) /\ pending' = pending
    <3>1. ToDo(todo', "pend")
      BY <1>1, <2>1, <2>4, CallMade
    <3>2. ToDo(todo', "apply")
      BY <2>2, <3>1 DEF Left, InPlace, ToDo, Later
    <3> QED
      BY <2>1, <2>2, <2>4, <3>1, <3>2 DEF CallsInv, EndInv, SwitchInv
  <2> QED
    BY <2>1, <2>3, <2>4
<1>11. CASE SetNow
  <2>1. UNCHANGED <<conv, stat, chen, isr, soft, next, cut>> /\ Done /\ Now("apply")
        /\ IF soft.burst THEN UNCHANGED <<input, pending>> ELSE input' = next /\ pending' = FALSE
    BY <1>11 DEF SetNow, At
  <2>2. Left(todo') /\ ~Now("down")'
        /\ \A g \in {"pend", "start"} : ToDo(todo, g) => ToDo(todo', g)
    BY <1>1, <2>1, CallMade
  <2>3. ToDo(todo', "pend") => ToDo(todo', "apply")
    BY <2>2 DEF Left, InPlace, ToDo, Later
  <2> QED
    BY <1>1, <2>1, <2>2, <2>3 DEF CallsInv, EndInv, SwitchInv
<1> QED
  BY <1>2, <1>3, <1>4, <1>5, <1>6, <1>7, <1>8, <1>9, <1>10, <1>11 DEF BurstCall

(* A command typed puts a program where nothing was left.                  *)
LEMMA CallsCommand ==
  ASSUME CallsInv, BurstCommand PROVE CallsInv'
<1>1. /\ Program(todo') /\ Rest
      /\ UNCHANGED <<adc, stat, dmaIf, chen, isr, st, soft, left, input, next, pending, cut>>
  BY Commands
<1>2. ~ToDo(todo, "apply") /\ ~ToDo(todo, "pend") /\ ~ToDo(todo, "start")
  <2>1. Len(<<>>) = 0 /\ 1 .. 0 = {}
    OBVIOUS
  <2> QED
    BY <1>1, <2>1 DEF Rest, ToDo
<1>3. Left(todo') /\ ~Now("down")'
  <2>1. todo' # <<>> /\ Left(todo') => todo'[1] = Head(todo')
    BY Popped
  <2> QED
    BY <1>1, <2>1 DEF Program, Now
<1> QED
  BY <1>1, <1>2, <1>3 DEF CallsInv, EndInv, SwitchInv

(* At boot nothing is left to do.                                          *)
LEMMA CallsInit == BurstInit => CallsInv
<1> SUFFICES ASSUME BurstInit PROVE CallsInv
  OBVIOUS
<1>1. /\ todo = <<>> /\ soft.burst = FALSE /\ pending = FALSE /\ input = next /\ cut = FALSE
  BY DEF BurstInit
<1>2. Left(todo)
  BY <1>1, Pieces DEF Program
<1>3. ~Now("down")
  BY <1>1 DEF Now
<1>4. EndInv
  BY <1>1, <1>2, <1>3, Zenon DEF EndInv
<1>5. SwitchInv
  BY <1>1, Zenon DEF SwitchInv
<1> QED
  BY <1>1, <1>4, <1>5 DEF CallsInv

(* The invariant holds in every state reached.                             *)
LEMMA CallsSafety == BurstSpec => []CallsInv
<1>1. FlightSafe /\ CallsInv /\ [BurstNext]_burstVars => CallsInv'
  <2>1. CallsInv /\ UNCHANGED burstVars => CallsInv'
    BY DEF burstVars, CallsInv, EndInv, SwitchInv, Now
  <2> QED
    BY <2>1, CallsHardware, CallsIsr, CallsCall, CallsCommand DEF BurstNext
<1> HIDE DEF FlightSafe
<1> QED
  BY <1>1, CallsInit, FlightSafety, PTL DEF BurstSpec

(* A burst that has ended is never forgotten: its DONE is in the status    *)
(* word with the interrupt requested, or in the snapshot the interrupt has *)
(* yet to act on (dma.c, dma0_clear(); capture.c, dma0_event()).           *)
THEOREM EndIsNeverLost == BurstSpec => []EndIsSeen
<1>1. FlightSafe /\ CallsInv => EndIsSeen
  BY DEF CallsInv, EndInv, EndIsSeen
<1> QED
  BY <1>1, FlightSafety, CallsSafety, PTL

(* An input change is never left over: with no burst in flight and nothing *)
(* running the interrupt or the command has carried it out, unless a burst *)
(* was cut off (capture.c, capture_set_input()).                           *)
THEOREM SwitchNeverLeftOver == BurstSpec => []SwitchCarriedOut
<1>1. CallsInv => SwitchCarriedOut
  <2>1. Rest => \A f : ~ToDo(todo, f)
    <3>1. Len(<<>>) = 0 /\ 1 .. 0 = {}
      OBVIOUS
    <3> QED
      BY <3>1 DEF Rest, ToDo
  <2> QED
    BY <2>1, Zenon DEF CallsInv, SwitchInv, SwitchCarriedOut
<1> QED
  BY <1>1, CallsSafety, PTL

----------------------------------------------------------------------------
(* The one-shot: what it has counted and what is still in flight, by the   *)
(* calls it has still to make.                                             *)

(* The flags the interrupt's snapshot holds and has not acted on are still *)
(* in the status word, and with the DONE of a burst nobody cut off among   *)
(* them nothing else is left there.                                        *)
SnapInv ==
  /\ blocks \in Nat
  /\ isr \in {"OVERRUN", "HALF"} /\ "HALF" \in st => "HALF" \in stat
  /\ ~cut /\ isr \in {"OVERRUN", "HALF", "DONE"} /\ "DONE" \in st =>
       /\ "HALF" \in stat => "HALF" \in st /\ isr # "DONE"
       /\ "OVERRUN" \in stat => "OVERRUN" \in st /\ isr = "OVERRUN"
  /\ ~cut /\ isr = "after" => stat = {} /\ st = {}

Kinds == {"none", "other", "oneshot"}
MeterOK == \E T : meter \in [kind : Kinds, target : T, rc : {0, 6, 8}]

(* The calls still to make are the last k of a one-shot of n bursts.       *)
Ahead(n, k) ==
  /\ IsSequence(todo) /\ Len(todo) = k
  /\ \A i \in 1 .. k : todo[i] = capture_oneshot_n(n)[12 - k + i]

(* How many halves of the burst in flight have completed.                  *)
Made    == IF conv > Half THEN 0 ELSE IF conv > 0 THEN 1 ELSE 2
Flag(f) == IF f \in stat THEN 1 ELSE 0

(* A one-shot of n bursts in flight: blocks_done and the flags it has not  *)
(* seen are the halves of the bursts that are over and of this one.        *)
Flying(n) ==
  /\ chen /\ soft.burst /\ ~cut /\ left \in 1 .. n
  /\ conv > Half => "HALF" \notin stat
  /\ blocks + Flag("HALF") + Flag("DONE") = 2 * (n - left) + Made
(* Its bursts are over.                                                    *)
Over(n) ==
  /\ blocks = 2 * n /\ left = 0 /\ conv = 0 /\ stat = {} /\ st = {}
  /\ isr # "after" /\ ~soft.burst /\ ~soft.run
(* The channel is armed and nothing converts.                              *)
Armed(n) ==
  /\ chen /\ stat = {} /\ isr = "none" /\ ~dmaIf /\ blocks = 0 /\ left = n
  /\ ~soft.burst /\ conv = 0 /\ ~cut
(* The brake has switched the channel off before they were over.           *)
Braked(n) == ~chen /\ blocks < 2 * n

(* Where the one-shot is, by the calls it has still to make: settled with  *)
(* the channel down, the count taken, the burst count set, the channel     *)
(* armed, started, waited - unless a burst was in flight as the channel    *)
(* was armed.                                                              *)
Ready(n, k) ==
  /\ ~chen /\ stat = {} /\ isr = "none" /\ ~dmaIf
  /\ (k <= 7 => blocks = 0) /\ (k <= 6 => left = n)
OneshotPhase(n, k) ==
  /\ k \in 6 .. 8 => Ready(n, k)
  /\ k \in 4 .. 5 => stray \/ Armed(n)
  /\ k = 3 => stray \/ Flying(n) \/ Over(n) \/ Braked(n)
  /\ k <= 2 /\ meter.rc = 0 => stray \/ (Over(n) /\ meter.target = 2 * n)

OneshotInv ==
  meter.kind = "oneshot" =>
    \E n \in Bursts, k \in 0 .. 12 : Ahead(n, k) /\ OneshotPhase(n, k)

OneshotSafe == SnapInv /\ MeterOK /\ OneshotInv

LEMMA SnapStep ==
  ASSUME FlightSafe, SnapInv, [BurstNext]_burstVars PROVE SnapInv'
<1>1. CASE Hardware
  <2>1. /\ UNCHANGED <<isr, st, blocks, cut, chen>> /\ conv > 0 /\ stat \subseteq stat'
        /\ (~chen => stat' = stat)
    BY <1>1 DEF Hardware, Convert, HwOverrun, HwHang, HwRest, Raise
  <2>2. ~cut /\ isr # "none" => isr # "after" /\ (isr \in {"OVERRUN", "HALF", "DONE"} => "DONE" \notin st)
    BY <2>1, HalfIsNat
  <2> QED
    BY <2>1, <2>2 DEF SnapInv
<1>2. CASE IsrEnter \/ IsrRead
  BY <1>2 DEF IsrEnter, IsrRead, IsrRest, SnapInv
<1>3. CASE IsrOverrun
  BY <1>3 DEF IsrOverrun, Brake, dma0_clear, SnapInv
<1>4. CASE IsrHalf
  <2>1. blocks' \in Nat
    BY <1>4 DEF IsrHalf, Block, SnapInv
  <2> QED
    BY <1>4, <2>1 DEF IsrHalf, dma0_clear, IsrRest, SnapInv
<1>5. CASE IsrDone
  <2>1. blocks' \in Nat
    BY <1>5 DEF IsrDone, Block, SnapInv
  <2>2. CASE "DONE" \in st
    <3>1. isr' = "after" /\ st' = {} /\ stat' = stat \ {"DONE"} /\ isr = "DONE"
      BY <1>5, <2>2 DEF IsrDone, dma0_clear
    <3>2. ~cut => stat' = {}
      <4>1. stat \subseteq {"HALF", "DONE", "OVERRUN"}
        BY DEF FlightSafe
      <4>2. ~cut => "HALF" \notin stat /\ "OVERRUN" \notin stat
        BY <2>2, <3>1 DEF SnapInv
      <4> QED
        BY <3>1, <4>1, <4>2
    <3>3. cut' = cut
      BY <1>5 DEF IsrDone, IsrRest
    <3> QED
      BY <2>1, <3>1, <3>2, <3>3 DEF SnapInv
  <2>3. CASE "DONE" \notin st
    BY <1>5, <2>1, <2>3 DEF IsrDone, SnapInv
  <2> QED
    BY <2>2, <2>3
<1>6. CASE IsrAfterDone
  BY <1>6 DEF IsrAfterDone, IsrRest, SnapInv
<1>7. CASE BurstCall
  <2>1. isr = "none" /\ isr' = isr
    BY <1>7, Zenon DEF BurstCall, capture_stop, SettleWait, SettleAbort, SettleDown, StartArm, StartEnable,
       StartBurst, SetNext, SetNow, Mark, Wait, Then, SetLeft, Soft, At
  <2>2. blocks' \in {blocks, 0}
    <3>1. blocks' = blocks \/ blocks' = 0
      BY <1>7, Zenon DEF BurstCall, capture_stop, SettleWait, SettleAbort, SettleDown, StartArm,
         StartEnable, StartBurst, SetNext, SetNow, Mark, Wait, Then, SetLeft, Soft
    <3> QED
      BY <3>1
  <2> QED
    BY <2>1, <2>2 DEF SnapInv
<1>8. CASE BurstCommand
  <2>1. UNCHANGED <<adc, stat, dmaIf, chen, isr, st, soft, left>> /\ blocks' \in Nat
    BY <1>8, Commands, BurstAssumption
  <2>2. isr = "none"
    BY <1>8, Zenon DEF BurstCommand, Start, Stop, Input, Samc, Settle, Oneshot, Rate, Selftest, Type
  <2> QED
    BY <2>1, <2>2 DEF SnapInv
<1>9. CASE UNCHANGED burstVars
  BY <1>9 DEF burstVars, SnapInv
<1> QED
  BY <1>1, <1>2, <1>3, <1>4, <1>5, <1>6, <1>7, <1>8, <1>9 DEF BurstNext, Isr

(* The twelve calls of a one-shot.                                         *)
LEMMA OneshotCalls ==
  ASSUME NEW n
  PROVE  LET s == capture_oneshot_n(n) IN
         /\ IsSequence(s) /\ Len(s) = 12
         /\ s[1] = Do("stop") /\ s[2] = Do("burst over") /\ s[3] = Do("abort") /\ s[4] = Do("down")
         /\ s[5] = Do("mark") /\ s[6] = Call("left", n)
         /\ s[7] = Do("arm") /\ s[8] = Do("enable") /\ s[9] = Do("start")
         /\ s[10] = Call("wait", 2 * n) /\ s[11] = Call("left", 0) /\ s[12] = Do("stop")
<1> DEFINE a == capture_settle
           b == <<Do("mark"), Call("left", n)>>
           c == capture_start
           d == <<Call("wait", 2 * n), Call("left", 0), Do("stop")>>
           u == a \o b
           v == u \o c
           s == v \o d
<1>1. IsSequence(a) /\ IsSequence(b) /\ IsSequence(c) /\ IsSequence(d)
  BY Pieces DEF Program, Left
<1>0. Len(a) = 4 /\ Len(b) = 2 /\ Len(c) = 3 /\ Len(d) = 3
  BY DEF capture_settle, capture_start
<1>2. /\ a[1] = Do("stop") /\ a[2] = Do("burst over") /\ a[3] = Do("abort") /\ a[4] = Do("down")
      /\ b[1] = Do("mark") /\ b[2] = Call("left", n)
      /\ c[1] = Do("arm") /\ c[2] = Do("enable") /\ c[3] = Do("start")
      /\ d[1] = Call("wait", 2 * n) /\ d[2] = Call("left", 0) /\ d[3] = Do("stop")
  BY DEF capture_settle, capture_start
<1>3. s = capture_oneshot_n(n)
  BY DEF capture_oneshot_n
<1> HIDE DEF a, b, c, d
<1>4. /\ IsSequence(u) /\ Len(u) = 6 /\ \A i \in 1 .. 4 : u[i] = a[i]
      /\ \A i \in 1 .. 2 : u[4 + i] = b[i]
  <2>1. /\ IsSequence(a \o b) /\ Len(a \o b) = Len(a) + Len(b)
        /\ \A i \in 1 .. Len(a) : (a \o b)[i] = a[i]
        /\ \A i \in 1 .. Len(b) : (a \o b)[Len(a) + i] = b[i]
    BY <1>1, Joining
  <2> QED
    BY <1>0, <1>1, <2>1
<1> HIDE DEF u
<1>5. /\ IsSequence(v) /\ Len(v) = 9 /\ \A i \in 1 .. 6 : v[i] = u[i]
      /\ \A i \in 1 .. 3 : v[6 + i] = c[i]
  <2>2. IsSequence(u)
    BY <1>4
  <2>1. /\ IsSequence(u \o c) /\ Len(u \o c) = Len(u) + Len(c)
        /\ \A i \in 1 .. Len(u) : (u \o c)[i] = u[i]
        /\ \A i \in 1 .. Len(c) : (u \o c)[Len(u) + i] = c[i]
    BY <1>1, <2>2, Joining
  <2> QED
    BY <1>0, <1>1, <1>4, <2>1
<1> HIDE DEF v
<1>6. /\ IsSequence(s) /\ Len(s) = 12 /\ \A i \in 1 .. 9 : s[i] = v[i]
      /\ \A i \in 1 .. 3 : s[9 + i] = d[i]
  <2>2. IsSequence(v)
    BY <1>5
  <2>1. /\ IsSequence(v \o d) /\ Len(v \o d) = Len(v) + Len(d)
        /\ \A i \in 1 .. Len(v) : (v \o d)[i] = v[i]
        /\ \A i \in 1 .. Len(d) : (v \o d)[Len(v) + i] = d[i]
    BY <1>1, <2>2, Joining
  <2> QED
    BY <1>0, <1>1, <1>5, <2>1
<1> HIDE DEF s
<1>7. /\ u[1] = a[1] /\ u[2] = a[2] /\ u[3] = a[3] /\ u[4] = a[4] /\ u[5] = b[1] /\ u[6] = b[2]
  <2>1. u[4 + 1] = b[1] /\ u[4 + 2] = b[2]
    BY <1>4
  <2> QED
    BY <1>4, <2>1
<1>8. /\ v[1] = u[1] /\ v[2] = u[2] /\ v[3] = u[3] /\ v[4] = u[4] /\ v[5] = u[5] /\ v[6] = u[6]
      /\ v[7] = c[1] /\ v[8] = c[2] /\ v[9] = c[3]
  <2>1. v[6 + 1] = c[1] /\ v[6 + 2] = c[2] /\ v[6 + 3] = c[3]
    BY <1>5
  <2> QED
    BY <1>5, <2>1
<1>9. /\ s[1] = v[1] /\ s[2] = v[2] /\ s[3] = v[3] /\ s[4] = v[4] /\ s[5] = v[5] /\ s[6] = v[6]
      /\ s[7] = v[7] /\ s[8] = v[8] /\ s[9] = v[9]
      /\ s[10] = d[1] /\ s[11] = d[2] /\ s[12] = d[3]
  <2>1. s[9 + 1] = d[1] /\ s[9 + 2] = d[2] /\ s[9 + 3] = d[3]
    BY <1>6
  <2> QED
    BY <1>6, <2>1
<1> QED
  BY <1>2, <1>3, <1>6, <1>7, <1>8, <1>9

(* Which of them is made, by how many are left.                            *)
LEMMA OneshotAt ==
  ASSUME NEW n, NEW k \in 0 .. 12, Ahead(n, k), NEW f, Now(f)
  PROVE  /\ k >= 1
         /\ f = "stop" => k \in {12, 1}
         /\ f = "abort" => k = 10
         /\ f = "down" => k = 9
         /\ f = "mark" => k = 8
         /\ f = "left" => (k = 7 /\ Arg = n) \/ (k = 2 /\ Arg = 0)
         /\ f = "arm" => k = 6
         /\ f = "enable" => k = 5
         /\ f = "start" => k = 4
         /\ f = "wait" => k = 3 /\ Arg = 2 * n
         /\ f \notin {"pinsel", "samc", "pend", "apply", "then"}
         /\ k = 11 \/ f \in {"stop", "abort", "down", "mark", "left", "arm", "enable", "start", "wait"}
         /\ Done => Ahead(n, k - 1)'
<1> DEFINE s == capture_oneshot_n(n)
<1>1. PICK S : todo \in Seq(S)
  BY DEF Ahead, IsSequence
<1>2. /\ todo # <<>> /\ Head(todo)[1] = f /\ Len(todo) = k /\ Len(todo) \in Nat /\ Len(todo) > 0
      /\ todo[1] = Head(todo) /\ Tail(todo) \in Seq(S) /\ Len(Tail(todo)) = Len(todo) - 1
      /\ \A i \in 1 .. Len(Tail(todo)) : Tail(todo)[i] = todo[i + 1]
  BY <1>1 DEF Ahead, Now
<1>3. k >= 1 /\ 1 \in 1 .. k /\ Head(todo) = s[12 - k + 1]
  BY <1>2 DEF Ahead
<1>4. Done => Ahead(n, k - 1)'
  <2> SUFFICES ASSUME Done PROVE Ahead(n, k - 1)'
    OBVIOUS
  <2>1. todo' = Tail(todo) /\ Len(todo') = k - 1
    BY <1>2 DEF Done, Leave
  <2>2. ASSUME NEW i \in 1 .. k - 1 PROVE todo'[i] = s[12 - (k - 1) + i]
    <3>1. i + 1 \in 1 .. k /\ 12 - k + (i + 1) = 12 - (k - 1) + i /\ i \in 1 .. Len(Tail(todo))
      BY <1>2
    <3>2. todo'[i] = todo[i + 1] /\ todo[i + 1] = s[12 - k + (i + 1)]
      BY <1>2, <2>1, <3>1 DEF Ahead
    <3> QED
      BY <3>1, <3>2
  <2>3. IsSequence(todo')
    BY <1>2, <2>1 DEF IsSequence
  <2> QED
    BY <2>1, <2>2, <2>3 DEF Ahead
<1>5. PICK w : /\ s[2] = Do(w)
               /\ w \notin {"stop", "abort", "down", "mark", "left", "arm", "enable", "start", "wait",
                            "pinsel", "samc", "pend", "apply", "then"}
  <2>1. s[2] = Do("burst over")
    BY OneshotCalls
  <2>2. "burst over" \notin {"stop", "abort", "down", "mark", "left", "arm", "enable", "start", "wait",
                            "pinsel", "samc", "pend", "apply", "then"}
    BY Zenon
  <2> QED
    BY <2>1, <2>2, Zenon
<1>6. /\ s[1] = Do("stop") /\ s[3] = Do("abort") /\ s[4] = Do("down")
      /\ s[5] = Do("mark") /\ s[6] = Call("left", n)
      /\ s[7] = Do("arm") /\ s[8] = Do("enable") /\ s[9] = Do("start")
      /\ s[10] = Call("wait", 2 * n) /\ s[11] = Call("left", 0) /\ s[12] = Do("stop")
  BY OneshotCalls, Zenon
<1> HIDE DEF s
<1>7. \A x : Do(x)[1] = x /\ \A y : Call(x, y)[1] = x /\ Call(x, y)[2] = y
  BY DEF Do, Call, OrElse
<1>8. Arg = Head(todo)[2]
  BY DEF Arg
<1>9. /\ k = 12 => Head(todo) = s[1]
      /\ k = 11 => Head(todo) = s[2]
      /\ k = 10 => Head(todo) = s[3]
      /\ k = 9 => Head(todo) = s[4]
      /\ k = 8 => Head(todo) = s[5]
      /\ k = 7 => Head(todo) = s[6]
      /\ k = 6 => Head(todo) = s[7]
      /\ k = 5 => Head(todo) = s[8]
      /\ k = 4 => Head(todo) = s[9]
      /\ k = 3 => Head(todo) = s[10]
      /\ k = 2 => Head(todo) = s[11]
      /\ k = 1 => Head(todo) = s[12]
  BY <1>3
<1>10. /\ k = 12 => f = "stop"
       /\ k = 11 => f = w
       /\ k = 10 => f = "abort"
       /\ k = 9 => f = "down"
       /\ k = 8 => f = "mark"
       /\ k = 7 => f = "left" /\ Arg = n
       /\ k = 6 => f = "arm"
       /\ k = 5 => f = "enable"
       /\ k = 4 => f = "start"
       /\ k = 3 => f = "wait" /\ Arg = 2 * n
       /\ k = 2 => f = "left" /\ Arg = 0
       /\ k = 1 => f = "stop"
  BY <1>2, <1>5, <1>6, <1>7, <1>8, <1>9
<1>11. \/ k = 12 \/ k = 11 \/ k = 10 \/ k = 9 \/ k = 8 \/ k = 7 \/ k = 6
       \/ k = 5 \/ k = 4 \/ k = 3 \/ k = 2 \/ k = 1
  BY <1>3
<1>12. /\ f = "stop" => k \in {12, 1}
       /\ f = "abort" => k = 10
       /\ f = "down" => k = 9
       /\ f = "mark" => k = 8
       /\ f = "left" => (k = 7 /\ Arg = n) \/ (k = 2 /\ Arg = 0)
       /\ f = "arm" => k = 6
       /\ f = "enable" => k = 5
       /\ f = "start" => k = 4
       /\ f = "wait" => k = 3 /\ Arg = 2 * n
  <2>1. f # w => k # 11
    BY <1>10
  <2>2. CASE f = w
    BY <1>5, <2>2
  <2>3. CASE f # w
    BY <1>10, <1>11, <2>1, <2>3
  <2> QED
    BY <2>2, <2>3
<1>13. /\ f \notin {"pinsel", "samc", "pend", "apply", "then"}
       /\ k = 11 \/ f \in {"stop", "abort", "down", "mark", "left", "arm", "enable", "start", "wait"}
  BY <1>5, <1>10, <1>11
<1> QED
  BY <1>3, <1>4, <1>12, <1>13

(* The channel's and the core's steps under a one-shot.                    *)
LEMMA FlyingArith ==
  ASSUME NEW n \in Bursts, FlightSafe, CallsInv, SnapInv, Flying(n)
  PROVE  /\ blocks \in Nat /\ n \in Nat /\ left \in Nat
         /\ Flag("HALF") \in {0, 1} /\ Flag("DONE") \in {0, 1} /\ Made \in {0, 1, 2}
         /\ blocks <= 2 * n /\ blocks < BlockCap
         /\ stat \cap {"HALF", "DONE"} # {} => blocks < 2 * n
         /\ isr # "after" => blocks < 2 * n
<1>1. /\ blocks \in Nat /\ n \in Nat /\ left \in Nat /\ left >= 1 /\ left <= n
      /\ BlockCap \in Nat /\ 2 * n < BlockCap
  BY BurstAssumption DEF SnapInv, Flying
<1>2. blocks + Flag("HALF") + Flag("DONE") = 2 * (n - left) + Made
  BY DEF Flying
<1>3. Made \in {0, 1, 2} /\ (conv # 0 => Made \in {0, 1})
  BY HalfIsNat DEF Made
<1>4. Flag("HALF") \in {0, 1} /\ Flag("DONE") \in {0, 1}
      /\ ("HALF" \in stat => Flag("HALF") = 1) /\ ("DONE" \in stat => Flag("DONE") = 1)
  BY DEF Flag
<1>5. isr # "after" /\ conv = 0 => "DONE" \in stat
  BY DEF CallsInv, EndInv, Flying
<1>6. blocks <= 2 * n
  BY <1>1, <1>2, <1>3, <1>4
<1>7. stat \cap {"HALF", "DONE"} # {} => blocks < 2 * n
  <2>1. ASSUME Flag("HALF") = 1 \/ Flag("DONE") = 1 PROVE blocks < 2 * n
    BY <1>1, <1>2, <1>3, <1>4, <2>1
  <2> QED
    BY <1>4, <2>1
<1>8. conv # 0 => blocks < 2 * n
  BY <1>1, <1>2, <1>3, <1>4
<1> QED
  BY <1>1, <1>3, <1>4, <1>5, <1>6, <1>7, <1>8

LEMMA FlyingHardware ==
  ASSUME NEW n \in Bursts, FlightSafe, CallsInv, SnapInv, Flying(n), Hardware PROVE Flying(n)'
<1>1. UNCHANGED <<chen, soft, cut, left, blocks>>
  BY DEF Hardware, Convert, HwOverrun, HwHang, HwRest
<1>2. /\ blocks + Flag("HALF") + Flag("DONE") = 2 * (n - left) + Made
      /\ chen /\ ~cut /\ left \in Nat /\ n \in Nat /\ blocks \in Nat
      /\ Flag("HALF") \in {0, 1} /\ Flag("DONE") \in {0, 1} /\ Made \in {0, 1, 2}
  BY FlyingArith DEF Flying
<1>3. ASSUME Flag("HALF")' + Flag("DONE")' - Made' = Flag("HALF") + Flag("DONE") - Made,
             Flag("HALF")' \in {0, 1}, Flag("DONE")' \in {0, 1}, Made' \in {0, 1, 2},
             conv' > Half => "HALF" \notin stat'
      PROVE  Flying(n)'
  <2>1. /\ 2 * (n - left) \in Int /\ blocks \in Int
        /\ Flag("HALF") \in Int /\ Flag("DONE") \in Int /\ Made \in Int
        /\ Flag("HALF")' \in Int /\ Flag("DONE")' \in Int /\ Made' \in Int
    BY <1>2, <1>3
  <2>2. blocks + Flag("HALF")' + Flag("DONE")' = 2 * (n - left) + Made'
    <3>1. Flag("HALF")' + Flag("DONE")' - Made' = Flag("HALF") + Flag("DONE") - Made
      BY <1>3
    <3>2. blocks + Flag("HALF") + Flag("DONE") = 2 * (n - left) + Made
      BY <1>2
    <3> QED
      BY <2>1, <3>1, <3>2, SMTT(30)
  <2> QED
    BY <1>1, <1>3, <2>2 DEF Flying
<1>4. CASE Convert
  <2>1. /\ conv > 0 /\ conv \in Int /\ conv' = conv - 1 /\ fill = 2 * Half - conv
        /\ (fill + 1 = Half <=> conv = Half + 1) /\ (fill + 1 = 2 * Half <=> conv = 1)
    BY <1>2, <1>4, HalfIsNat DEF Convert
  <2>2. "DONE" \notin stat /\ (conv > Half => "HALF" \notin stat)
    BY <1>2, <2>1 DEF Flying
  <2>3. CASE conv = Half + 1
    <3>1. stat' = stat \cup {"HALF"}
      BY <1>2, <1>4, <2>1, <2>3 DEF Convert, Raise
    <3>2. Made = 0 /\ Made' = 1
      BY <2>1, <2>3, HalfIsNat DEF Made
    <3>3. Flag("HALF") = 0 /\ Flag("HALF")' = 1 /\ Flag("DONE") = 0 /\ Flag("DONE")' = 0
      BY <2>1, <2>2, <2>3, <3>1, HalfIsNat DEF Flag
    <3>4. ~(conv' > Half)
      BY <2>1, <2>3, HalfIsNat
    <3> QED
      BY <1>3, <3>2, <3>3, <3>4
  <2>4. CASE conv = 1
    <3>1. stat' = stat \cup {"DONE"}
      BY <1>2, <1>4, <2>1, <2>4, HalfIsNat DEF Convert, Raise
    <3>2. Made = 1 /\ Made' = 2 /\ ~(conv' > Half)
      BY <2>1, <2>4, HalfIsNat DEF Made
    <3>3. Flag("HALF")' = Flag("HALF") /\ Flag("DONE") = 0 /\ Flag("DONE")' = 1
      BY <2>2, <3>1 DEF Flag
    <3> QED
      BY <1>2, <1>3, <3>2, <3>3
  <2>5. CASE conv # Half + 1 /\ conv # 1
    <3>1. stat' = stat
      BY <1>4, <2>1, <2>5 DEF Convert
    <3>2. Made' = Made /\ (conv' > Half => conv > Half)
      BY <2>1, <2>5, HalfIsNat DEF Made
    <3>3. Flag("HALF")' = Flag("HALF") /\ Flag("DONE")' = Flag("DONE")
      BY <3>1 DEF Flag
    <3>4. conv' > Half => "HALF" \notin stat'
      BY <2>2, <3>1, <3>2
    <3> QED
      BY <1>2, <1>3, <3>2, <3>3, <3>4
  <2> QED
    BY <2>3, <2>4, <2>5
<1>5. CASE HwOverrun \/ HwHang
  <2>1. conv' = conv /\ stat' \in {stat, stat \cup {"OVERRUN"}}
    BY <1>5 DEF HwOverrun, HwHang, Raise
  <2>2. Flag("HALF")' = Flag("HALF") /\ Flag("DONE")' = Flag("DONE") /\ Made' = Made
        /\ (conv' > Half => "HALF" \notin stat')
    BY <2>1 DEF Flag, Made, Flying
  <2> QED
    BY <1>2, <1>3, <2>2
<1> QED
  BY <1>4, <1>5 DEF Hardware

(* The interrupt counts the halves, starts the next burst or ends the      *)
(* one-shot; or it brakes.                                                 *)
LEMMA FlyingIsr ==
  ASSUME NEW n \in Bursts, FlightSafe, CallsInv, SnapInv, Flying(n), Isr
  PROVE  Flying(n)' \/ Over(n)' \/ Braked(n)'
<1>1. /\ blocks \in Nat /\ n \in Nat /\ left \in Nat /\ left \in 1 .. n
      /\ blocks < BlockCap /\ BlockCap \in Nat
  BY FlyingArith, BurstAssumption DEF Flying
<1>2. blocks + Flag("HALF") + Flag("DONE") = 2 * (n - left) + Made
  BY DEF Flying
<1>3. Flag("HALF") \in {0, 1} /\ Flag("DONE") \in {0, 1} /\ Made \in {0, 1, 2}
  BY FlyingArith
<1>4. CASE IsrEnter \/ IsrRead
  <2>1. UNCHANGED <<conv, stat, chen, soft, cut, left, blocks>>
    BY <1>4 DEF IsrEnter, IsrRead, IsrRest
  <2> QED
    BY <2>1 DEF Flying, Made, Flag
<1>5. CASE IsrOverrun
  <2>1. UNCHANGED <<left, blocks, conv>>
    BY <1>5 DEF IsrOverrun
  <2>2. \/ ~chen'
        \/ UNCHANGED <<chen, cut>> /\ (soft'.burst <=> soft.burst)
           /\ stat' \in {stat, stat \ {"OVERRUN"}}
    BY <1>5 DEF IsrOverrun, Brake, dma0_clear
  <2>3. ASSUME UNCHANGED <<chen, cut>>, soft'.burst <=> soft.burst,
               stat' \in {stat, stat \ {"OVERRUN"}}
        PROVE  Flying(n)'
    <3>1. Flag("HALF")' = Flag("HALF") /\ Flag("DONE")' = Flag("DONE") /\ Made' = Made
          /\ ("HALF" \in stat' => "HALF" \in stat)
      BY <2>1, <2>3 DEF Flag, Made
    <3> QED
      BY <2>1, <2>3, <3>1 DEF Flying
  <2>4. blocks < 2 * n
    BY <1>5, FlyingArith DEF IsrOverrun
  <2> QED
    BY <2>1, <2>2, <2>3, <2>4 DEF Braked
<1>6. CASE IsrHalf
  <2>1. UNCHANGED <<conv, chen, soft, cut, left>> /\ Made' = Made
    BY <1>6 DEF IsrHalf, IsrRest, Made
  <2>2. CASE "HALF" \in st
    <3>1. stat' = stat \ {"HALF"} /\ "HALF" \in stat /\ blocks' = blocks + 1
      BY <1>1, <1>6, <2>2 DEF IsrHalf, dma0_clear, Block, SnapInv
    <3>2. Flag("HALF") = 1 /\ Flag("HALF")' = 0 /\ Flag("DONE")' = Flag("DONE")
      BY <3>1 DEF Flag
    <3>3. blocks' + Flag("HALF")' + Flag("DONE")' = 2 * (n - left) + Made
      BY <1>1, <1>2, <1>3, <3>1, <3>2
    <3> QED
      BY <2>1, <3>1, <3>3 DEF Flying
  <2>3. CASE "HALF" \notin st
    <3>1. UNCHANGED <<stat, blocks>>
      BY <1>6, <2>3 DEF IsrHalf
    <3> QED
      BY <2>1, <3>1 DEF Flying, Flag
  <2> QED
    BY <2>2, <2>3
<1>7. CASE IsrDone
  <2>1. UNCHANGED <<conv, chen, soft, cut, left>> /\ Made' = Made
    BY <1>7 DEF IsrDone, IsrRest, Made
  <2>2. CASE "DONE" \in st
    <3>1. stat' = stat \ {"DONE"} /\ "DONE" \in stat /\ blocks' = blocks + 1
      BY <1>1, <1>7, <2>2 DEF IsrDone, dma0_clear, Block
    <3>2. Flag("DONE") = 1 /\ Flag("DONE")' = 0 /\ Flag("HALF")' = Flag("HALF")
      BY <3>1 DEF Flag
    <3>3. blocks' + Flag("HALF")' + Flag("DONE")' = 2 * (n - left) + Made
      BY <1>1, <1>2, <1>3, <3>1, <3>2
    <3> QED
      BY <2>1, <3>1, <3>3 DEF Flying
  <2>3. CASE "DONE" \notin st
    <3>1. UNCHANGED <<stat, blocks>>
      BY <1>7, <2>3 DEF IsrDone
    <3> QED
      BY <2>1, <3>1 DEF Flying, Flag
  <2> QED
    BY <2>2, <2>3
<1>8. CASE IsrAfterDone
  <2>0. ~cut /\ isr = "after" /\ conv = 0
    BY <1>8 DEF IsrAfterDone, Flying
  <2>1. /\ isr' = "none" /\ cut' = cut /\ left' = left - 1
        /\ UNCHANGED <<stat, st, chen, blocks>> /\ stat = {} /\ st = {}
        /\ Again <=> left > 1
        /\ IF Again THEN adc_start_burst /\ soft' = [soft EXCEPT !.burst = TRUE]
           ELSE /\ soft' = [soft EXCEPT !.burst = FALSE, !.run = soft.run /\ left = 0]
                /\ UNCHANGED conv
    BY <1>1, <1>8, <2>0 DEF IsrAfterDone, IsrRest, SnapInv, Again
  <2>2. Flag("HALF") = 0 /\ Flag("DONE") = 0 /\ Made = 2
    BY <2>0, <2>1, HalfIsNat DEF Flag, Made
  <2>3. blocks = 2 * (n - left) + 2
    BY <1>1, <1>2, <2>2
  <2>4. CASE left > 1
    <3>1. conv' = 2 * Half /\ soft'.burst /\ stat' = {} /\ left' \in 1 .. n /\ chen'
      BY <1>1, <2>0, <2>1, <2>4, Triggered DEF Flying
    <3>2. Flag("HALF")' = 0 /\ Flag("DONE")' = 0 /\ Made' = 0
      BY <3>1, HalfIsNat DEF Flag, Made
    <3>3. blocks' + Flag("HALF")' + Flag("DONE")' = 2 * (n - left') + Made'
      BY <1>1, <2>1, <2>3, <3>2
    <3> QED
      BY <2>0, <2>1, <3>1, <3>3 DEF Flying
  <2>5. CASE ~(left > 1)
    <3>1. left = 1
      BY <1>1, <2>5
    <3>2. blocks' = 2 * n /\ left' = 0
      BY <1>1, <2>1, <2>3, <3>1
    <3>3. ~soft'.burst /\ ~soft'.run /\ conv' = 0
      <4>1. left # 0 /\ ~Again
        BY <2>1, <3>1
      <4>2. soft' = [soft EXCEPT !.burst = FALSE, !.run = FALSE] /\ conv' = conv
        BY <2>1, <4>1
      <4> QED
        BY <2>0, <2>1, <4>2
    <3> QED
      BY <2>1, <3>2, <3>3 DEF Over
  <2> QED
    BY <2>4, <2>5
<1> QED
  BY <1>4, <1>5, <1>6, <1>7, <1>8 DEF Isr

(* What is over stays so, and so do a channel made ready and one off.      *)
LEMMA QuietKept ==
  ASSUME NEW n \in Bursts, FlightSafe, SnapInv, Hardware \/ Isr
  PROVE  /\ stray' = stray
         /\ Over(n) => Over(n)'
         /\ Armed(n) => Armed(n)'
         /\ Braked(n) => Braked(n)'
         /\ \A k \in 6 .. 8 : Ready(n, k) => Ready(n, k)'
<1>1. CASE Hardware
  <2>1. /\ UNCHANGED <<chen, isr, st, soft, left, blocks, stray>> /\ conv > 0
        /\ (~chen => UNCHANGED <<stat, dmaIf>>)
    BY <1>1 DEF Hardware, Convert, HwOverrun, HwHang, HwRest
  <2> QED
    BY <2>1 DEF Over, Armed, Braked, Ready
<1>2. CASE Isr
  <2>1. chen /\ (dmaIf \/ isr # "none")
    BY <1>2 DEF Isr, IsrEnter, IsrRead, IsrOverrun, IsrHalf, IsrDone, IsrAfterDone
  <2>2. ~Armed(n) /\ ~Braked(n) /\ \A k \in 6 .. 8 : ~Ready(n, k)
    BY <2>1 DEF Armed, Braked, Ready
  <2>3. stray' = stray
    BY <1>2 DEF Isr, IsrEnter, IsrRead, IsrOverrun, IsrHalf, IsrDone, IsrAfterDone, IsrRest
  <2>4. ASSUME Over(n) PROVE Over(n)'
    <3>1. stat = {} /\ st = {} /\ isr # "after" /\ left = 0 /\ conv = 0 /\ blocks = 2 * n
      BY <2>4 DEF Over
    <3>2. UNCHANGED <<conv, stat, left, blocks, soft>> /\ st' = {} /\ isr' # "after"
      BY <1>2, <3>1 DEF Isr, IsrEnter, IsrRead, IsrOverrun, IsrHalf, IsrDone, IsrAfterDone, IsrRest
    <3> QED
      BY <2>4, <3>1, <3>2 DEF Over
  <2> QED
    BY <2>2, <2>3, <2>4
<1> QED
  BY <1>1, <1>2

(* Where a one-shot is after a step of the core or of the interrupt.       *)
LEMMA PhaseKept ==
  ASSUME NEW n \in Bursts, NEW k \in 0 .. 12, FlightSafe, CallsInv, SnapInv, OneshotPhase(n, k),
         Hardware \/ Isr
  PROVE  OneshotPhase(n, k)'
<1>1. UNCHANGED meter
  BY DEF Hardware, Convert, HwOverrun, HwHang, HwRest,
     Isr, IsrEnter, IsrRead, IsrOverrun, IsrHalf, IsrDone, IsrAfterDone, IsrRest
<1>2. /\ stray' = stray
      /\ Over(n) => Over(n)'
      /\ Armed(n) => Armed(n)'
      /\ Braked(n) => Braked(n)'
      /\ \A j \in 6 .. 8 : Ready(n, j) => Ready(n, j)'
  BY QuietKept
<1>3. Flying(n) => Flying(n)' \/ Over(n)' \/ Braked(n)'
  BY FlyingHardware, FlyingIsr
<1> QED
  BY <1>1, <1>2, <1>3 DEF OneshotPhase

(* The one-shot's calls.                                                   *)
LEMMA OneshotCall ==
  ASSUME NEW n \in Bursts, NEW k \in 0 .. 12, FlightSafe, CallsInv, SnapInv, MeterOK, BurstCall,
         Ahead(n, k), OneshotPhase(n, k)
  PROVE  k >= 1 /\ Ahead(n, k - 1)' /\ OneshotPhase(n, k - 1)'
<1>0. n \in Nat /\ n >= 1 /\ k \in Int
  BY BurstAssumption
<1>1. ASSUME NEW f, At(f)
      PROVE  /\ k >= 1 /\ Now(f) /\ isr = "none" /\ ~(dmaIf /\ chen)
             /\ Done => Ahead(n, k - 1)'
  BY <1>1, OneshotAt DEF At
<1>2. CASE capture_stop
  <2>1. /\ Now("stop") /\ Done /\ At("stop") /\ soft' = [soft EXCEPT !.run = FALSE, !.was = soft.run]
        /\ UNCHANGED <<adc, stat, dmaIf, chen, isr, st, left, blocks, meter, stray>>
    BY <1>2 DEF capture_stop, Soft, At
  <2>2. k \in {12, 1}
    BY <2>1, OneshotAt
  <2>3. ~soft'.run /\ (soft'.burst <=> soft.burst)
    BY <2>1
  <2>4. OneshotPhase(n, k - 1)'
    <3>1. k = 1 => (meter.rc = 0 => stray \/ (Over(n) /\ meter.target = 2 * n))
      BY DEF OneshotPhase
    <3>2. Over(n) => Over(n)'
      BY <2>1, <2>3 DEF Over
    <3>3. CASE k = 12
      BY <3>3 DEF OneshotPhase
    <3>4. CASE k = 1
      BY <2>1, <3>1, <3>2, <3>4 DEF OneshotPhase
    <3> QED
      BY <2>2, <3>3, <3>4
  <2> QED
    BY <1>1, <2>1, <2>4
<1>3. CASE SettleWait
  <2>1. PICK f : At(f) /\ Done /\ f \notin {"stop", "abort", "down", "mark", "left", "arm", "enable",
                                            "start", "wait"}
    <3>1. At("burst over") /\ Done
      BY <1>3, Zenon DEF SettleWait
    <3>2. "burst over" \notin {"stop", "abort", "down", "mark", "left", "arm", "enable", "start",
                               "wait"}
      BY Zenon
    <3> QED
      BY <3>1, <3>2, Zenon
  <2>2. k = 11
    BY <1>1, <2>1, OneshotAt
  <2>3. OneshotPhase(n, k - 1)'
    BY <2>2 DEF OneshotPhase
  <2> QED
    BY <1>1, <2>1, <2>3
<1>4. CASE SettleAbort
  <2>1. At("abort") /\ Now("abort") /\ Done
    BY <1>4 DEF SettleAbort, At
  <2>2. k = 10
    BY <2>1, OneshotAt
  <2>3. OneshotPhase(n, k - 1)'
    BY <2>2 DEF OneshotPhase
  <2> QED
    BY <1>1, <2>1, <2>3
<1>5. CASE SettleDown
  <2>1. /\ At("down") /\ Now("down") /\ Done
        /\ chen' = FALSE /\ stat' = {} /\ dmaIf' = FALSE /\ isr' = isr
    BY <1>5 DEF SettleDown, At
  <2>2. k = 9
    BY <2>1, OneshotAt
  <2>3. OneshotPhase(n, k - 1)'
    BY <1>1, <2>1, <2>2 DEF OneshotPhase, Ready
  <2> QED
    BY <1>1, <2>1, <2>3
<1>6. CASE Mark
  <2>1. /\ At("mark") /\ Now("mark") /\ Done /\ blocks' = 0
        /\ UNCHANGED <<stat, dmaIf, chen, isr, soft>>
    BY <1>6 DEF Mark, At
  <2>2. k = 8
    BY <2>1, OneshotAt
  <2>3. OneshotPhase(n, k - 1)'
    BY <2>1, <2>2 DEF OneshotPhase, Ready
  <2> QED
    BY <1>1, <2>1, <2>3
<1>7. CASE SetLeft
  <2>1. /\ At("left") /\ Now("left") /\ Done /\ left' = Arg
        /\ UNCHANGED <<adc, stat, dmaIf, chen, isr, st, soft, blocks, meter, stray>>
    BY <1>7 DEF SetLeft, At
  <2>2. (k = 7 /\ Arg = n) \/ (k = 2 /\ Arg = 0)
    BY <2>1, OneshotAt
  <2>3. Over(n) /\ Arg = 0 => Over(n)'
    BY <2>1 DEF Over
  <2>4. OneshotPhase(n, k - 1)'
    <3>1. CASE k = 7 /\ Arg = n
      BY <2>1, <3>1 DEF OneshotPhase, Ready
    <3>2. CASE k = 2 /\ Arg = 0
      BY <2>1, <2>3, <3>2 DEF OneshotPhase
    <3> QED
      BY <2>2, <3>1, <3>2
  <2> QED
    BY <1>1, <2>1, <2>4
<1>8. CASE StartArm
  <2>1. At("arm") /\ Now("arm") /\ Done /\ UNCHANGED <<conv, isr, left, blocks>>
    BY <1>8 DEF StartArm, At
  <2>2. k = 6
    BY <2>1, OneshotAt
  <2>3. Ready(n, 6)
    BY <2>2 DEF OneshotPhase
  <2>4. /\ chen' = TRUE /\ stat' = {} /\ dmaIf' = FALSE
        /\ stray' = (conv # 0 \/ soft.burst) /\ cut' = stray'
        /\ soft' = [soft EXCEPT !.armed = TRUE]
    BY <1>8, <2>3 DEF StartArm, Ready
  <2>5. stray' \/ Armed(n)'
    BY <2>1, <2>3, <2>4 DEF Armed, Ready
  <2>6. OneshotPhase(n, k - 1)'
    BY <2>2, <2>5 DEF OneshotPhase
  <2> QED
    BY <1>1, <2>1, <2>6
<1>9. CASE StartEnable
  <2>1. At("enable") /\ Now("enable") /\ Done /\ (soft'.burst <=> soft.burst)
        /\ UNCHANGED <<adc, stat, dmaIf, chen, isr, left, blocks, cut, stray>>
    BY <1>9 DEF StartEnable, Soft, At
  <2>2. k = 5
    BY <2>1, OneshotAt
  <2>3. Armed(n) => Armed(n)'
    BY <2>1 DEF Armed
  <2>4. OneshotPhase(n, k - 1)'
    BY <2>1, <2>2, <2>3 DEF OneshotPhase
  <2> QED
    BY <1>1, <2>1, <2>4
<1>10. CASE StartBurst
  <2>1. At("start") /\ Now("start") /\ Done
    BY <1>10 DEF StartBurst, At
  <2>2. k = 4
    BY <2>1, OneshotAt
  <2>3. stray' = stray
    BY <1>10 DEF StartBurst
  <2>4. ASSUME Armed(n) PROVE Flying(n)'
    <3>1. conv = 0 /\ ~soft.burst /\ ~cut /\ chen /\ stat = {} /\ blocks = 0 /\ left = n
      BY <2>4 DEF Armed
    <3>2. /\ conv' = 2 * Half /\ soft'.burst /\ ~cut'
          /\ UNCHANGED <<stat, chen, left, blocks>>
      BY <1>10, <2>4, <3>1, Triggered DEF StartBurst
    <3>3. Flag("HALF")' = 0 /\ Flag("DONE")' = 0 /\ Made' = 0
      BY <3>1, <3>2, HalfIsNat DEF Flag, Made
    <3>4. blocks' + Flag("HALF")' + Flag("DONE")' = 2 * (n - left') + Made'
      BY <1>0, <3>1, <3>2, <3>3
    <3>5. left' \in 1 .. n /\ chen' /\ "HALF" \notin stat'
      BY <1>0, <3>1, <3>2
    <3> QED
      BY <3>2, <3>4, <3>5 DEF Flying
  <2>5. OneshotPhase(n, k - 1)'
    BY <2>2, <2>3, <2>4 DEF OneshotPhase
  <2> QED
    BY <1>1, <2>1, <2>5
<1>11. CASE Wait
  <2>1. /\ At("wait") /\ Now("wait") /\ Done
        /\ UNCHANGED <<conv, stat, chen, isr, st, soft, left, blocks, stray>>
    BY <1>11 DEF Wait, At
  <2>2. k = 3 /\ Arg = 2 * n
    BY <2>1, OneshotAt
  <2>3. PICK rc \in {0, 6, 8} : /\ meter' = [meter EXCEPT !.target = Arg, !.rc = rc]
                                /\ rc = 0 => blocks >= Arg
    <3>1. PICK rc \in {0, 6, 8} :
            /\ CASE rc = 0 -> blocks >= Arg
                 [] rc = 8 -> blocks < Arg /\ ~chen
                 [] rc = 6 -> blocks < Arg /\ chen /\ (conv = 0 \/ hung)
            /\ meter' = [meter EXCEPT !.target = Arg, !.rc = rc]
      BY <1>11, Zenon DEF Wait
    <3>2. rc = 0 => blocks >= Arg
      BY <3>1
    <3> QED
      BY <3>1, <3>2
  <2>4. PICK T : meter \in [kind : Kinds, target : T, rc : {0, 6, 8}]
    BY DEF MeterOK
  <2>5. meter'.rc = 0 => blocks >= 2 * n /\ meter'.target = 2 * n
    BY <2>2, <2>3, <2>4
  <2>6. blocks >= 2 * n => stray \/ Over(n)
    <3>1. Flying(n) => blocks < 2 * n /\ blocks \in Nat
      BY <1>1, <2>1, FlyingArith
    <3>2. stray \/ Flying(n) \/ Over(n) \/ Braked(n)
      BY <2>2 DEF OneshotPhase
    <3>3. Braked(n) => blocks < 2 * n /\ blocks \in Nat
      BY DEF Braked, SnapInv
    <3> QED
      BY <1>0, <3>1, <3>2, <3>3
  <2>7. Over(n) => Over(n)'
    BY <2>1 DEF Over
  <2>8. OneshotPhase(n, k - 1)'
    BY <2>1, <2>2, <2>5, <2>6, <2>7 DEF OneshotPhase
  <2> QED
    BY <1>1, <2>1, <2>8
<1>12. CASE SetNext \/ SetNow \/ Then
  <2>1. \E f \in {"pinsel", "samc", "pend", "apply", "then"} : Now(f)
    BY <1>12 DEF SetNext, SetNow, Then, At
  <2> QED
    BY <2>1, OneshotAt
<1> QED
  BY <1>2, <1>3, <1>4, <1>5, <1>6, <1>7, <1>8, <1>9, <1>10, <1>11, <1>12 DEF BurstCall

(* A command typed.                                                        *)
LEMMA OneshotTyped ==
  ASSUME BurstCommand PROVE OneshotInv'
<1> SUFFICES ASSUME meter'.kind = "oneshot"
             PROVE  \E n \in Bursts, k \in 0 .. 12 : Ahead(n, k)' /\ OneshotPhase(n, k)'
  BY DEF OneshotInv
<1>1. Oneshot
  <2>1. \A p : ~Type("other", p)
    BY DEF Type, NoMeter
  <2> QED
    BY <2>1 DEF BurstCommand, Start, Stop, Input, Samc, Settle, Rate, Selftest
<1>2. PICK n \in Bursts : Type("oneshot", capture_oneshot_n(n))
  BY <1>1 DEF Oneshot
<1>3. todo' = capture_oneshot_n(n)
  BY <1>2 DEF Type, Begin
<1>4. IsSequence(capture_oneshot_n(n)) /\ Len(capture_oneshot_n(n)) = 12
  BY OneshotCalls, Zenon
<1>5. Ahead(n, 12)'
  <2>1. \A i \in 1 .. 12 : 12 - 12 + i = i
    OBVIOUS
  <2> QED
    BY <1>3, <1>4, <2>1 DEF Ahead
<1>6. OneshotPhase(n, 12)'
  BY DEF OneshotPhase
<1> QED
  BY <1>5, <1>6

(* The measurement: its kind is set when it is typed, its result when it   *)
(* has waited.                                                             *)
LEMMA MeterStep ==
  ASSUME MeterOK, [BurstNext]_burstVars
  PROVE  MeterOK' /\ (~BurstCommand => meter'.kind = meter.kind)
<1>1. PICK T : meter \in [kind : Kinds, target : T, rc : {0, 6, 8}]
  BY DEF MeterOK
<1>2. CASE BurstCommand
  <2>1. PICK k \in Kinds : meter' = [NoMeter EXCEPT !.kind = k]
    BY <1>2 DEF BurstCommand, Start, Stop, Input, Samc, Settle, Oneshot, Rate, Selftest, Type, Kinds
  <2>2. meter' \in [kind : Kinds, target : {0}, rc : {0, 6, 8}]
    BY <2>1 DEF NoMeter
  <2> QED
    BY <1>2, <2>2 DEF MeterOK
<1>3. CASE Wait
  <2>1. PICK rc \in {0, 6, 8} : meter' = [meter EXCEPT !.target = Arg, !.rc = rc]
    BY <1>3 DEF Wait
  <2>2. meter' \in [kind : Kinds, target : T \cup {Arg}, rc : {0, 6, 8}] /\ meter'.kind = meter.kind
    BY <1>1, <2>1
  <2> QED
    BY <2>2 DEF MeterOK
<1>4. CASE ~BurstCommand /\ ~Wait
  <2>1. UNCHANGED meter
    BY <1>4, Zenon DEF BurstNext, BurstCall, capture_stop, SettleWait, SettleAbort, SettleDown,
       StartArm, StartEnable, StartBurst, SetNext, SetNow, Mark, Then, SetLeft, Soft, Hardware,
       Convert, HwOverrun, HwHang, HwRest, Isr, IsrEnter, IsrRead, IsrOverrun,
       IsrHalf, IsrDone, IsrAfterDone, IsrRest, burstVars
  <2> QED
    BY <1>1, <2>1 DEF MeterOK
<1> QED
  BY <1>2, <1>3, <1>4

LEMMA OneshotStep ==
  ASSUME FlightSafe, CallsInv, SnapInv, MeterOK, OneshotInv, [BurstNext]_burstVars
  PROVE  OneshotInv'
<1>1. CASE BurstCommand
  BY <1>1, OneshotTyped
<1>2. CASE ~BurstCommand
  <2> SUFFICES ASSUME meter'.kind = "oneshot"
               PROVE  \E n \in Bursts, k \in 0 .. 12 : Ahead(n, k)' /\ OneshotPhase(n, k)'
    BY DEF OneshotInv
  <2>1. meter.kind = "oneshot"
    BY <1>2, MeterStep
  <2>2. PICK n \in Bursts, k \in 0 .. 12 : Ahead(n, k) /\ OneshotPhase(n, k)
    BY <2>1 DEF OneshotInv
  <2>3. CASE Hardware \/ Isr
    <3>1. UNCHANGED todo
      BY <2>3 DEF Hardware, Convert, HwOverrun, HwHang, HwRest,
         Isr, IsrEnter, IsrRead, IsrOverrun, IsrHalf, IsrDone, IsrAfterDone, IsrRest
    <3>2. Ahead(n, k)'
      BY <2>2, <3>1 DEF Ahead
    <3> QED
      BY <2>2, <2>3, <3>2, PhaseKept
  <2>4. CASE BurstCall
    <3>1. k >= 1 /\ Ahead(n, k - 1)' /\ OneshotPhase(n, k - 1)'
      BY <2>2, <2>4, OneshotCall
    <3>2. k - 1 \in 0 .. 12
      BY <3>1
    <3> QED
      BY <3>1, <3>2
  <2>5. CASE UNCHANGED burstVars
    <3>1. Ahead(n, k)' /\ OneshotPhase(n, k)'
      BY <2>2, <2>5 DEF Ahead, OneshotPhase, Ready, Armed, Braked, Flying, Over, Made, Flag,
         burstVars
    <3> QED
      BY <3>1
  <2> QED
    BY <1>2, <2>3, <2>4, <2>5 DEF BurstNext
<1> QED
  BY <1>1, <1>2

(* A one-shot that reports success has filled the buffer with exactly its  *)
(* bursts and nothing converts or moves any more, wherever the overruns,   *)
(* the brake and the interrupt fell - unless a burst that an earlier brake *)
(* had left was still converting as the channel was armed                  *)
(* (capture_oneshot_n()).                                                  *)
THEOREM OneshotIsWhole == BurstSpec => []OneshotWhole
<1>1. BurstInit => OneshotSafe
  <2> SUFFICES ASSUME BurstInit PROVE OneshotSafe
    OBVIOUS
  <2>1. blocks \in Nat /\ isr = "none" /\ meter = [kind |-> "none", target |-> 0, rc |-> 0]
    BY BurstAssumption DEF BurstInit, NoMeter
  <2>2. meter \in [kind : Kinds, target : {0}, rc : {0, 6, 8}]
    BY <2>1 DEF Kinds
  <2> QED
    BY <2>1, <2>2 DEF OneshotSafe, SnapInv, MeterOK, OneshotInv
<1>2. FlightSafe /\ CallsInv /\ OneshotSafe /\ [BurstNext]_burstVars => OneshotSafe'
  BY SnapStep, MeterStep, OneshotStep DEF OneshotSafe
<1>3. OneshotSafe => OneshotWhole
  <2> SUFFICES ASSUME OneshotInv, Rest, meter.kind = "oneshot", meter.rc = 0, ~stray
               PROVE  /\ blocks = meter.target /\ conv = 0 /\ left = 0
                      /\ ~soft.burst /\ ~soft.run /\ stat \cap {"HALF", "DONE"} = {}
    BY DEF OneshotWhole, OneshotSafe
  <2>1. PICK n \in Bursts, k \in 0 .. 12 : Ahead(n, k) /\ OneshotPhase(n, k)
    BY DEF OneshotInv
  <2>2. k = 0
    BY <2>1 DEF Rest, Ahead
  <2> QED
    BY <2>1, <2>2 DEF OneshotPhase, Over
<1> HIDE DEF FlightSafe
<1> QED
  BY <1>1, <1>2, <1>3, FlightSafety, CallsSafety, PTL DEF BurstSpec
=============================================================================
