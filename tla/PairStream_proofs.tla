------------------------- MODULE PairStream_proofs --------------------------
(***************************************************************************)
(* Theorems about PairStream, for every value of the constants.            *)
(*                                                                         *)
(* The types; then that a pair stands still while "stream grab" sends it,  *)
(* that a grab of a running stream is never refused, and that a grab       *)
(* implements SnapshotStream: proved for every counter width, every        *)
(* interleaving of the main loop and the console and any overload of the   *)
(* main loop, as long as the DMA interrupt runs within a half period and   *)
(* halves take their nominal time.  And that a pair it spoils when the     *)
(* interrupt comes later than that is told by the stream's late_service:   *)
(* proved for every lateness the model allows, as long as halves take their*)
(* nominal time.                                                           *)
(* Then what capture_service() hands to the signal processing: number and  *)
(* offset of a block name the same half, however late the main loop is;    *)
(* and, with the main loop in time, that gap = 0 means what it says and    *)
(* that a pair sent was processed whole.                                   *)
(***************************************************************************)
EXTENDS PairStreamInv, FiniteSetTheorems, SequenceTheorems, TLAPS

LEMMA ModRange == ASSUME NEW n \in Int PROVE n % W \in Half
  BY ConstantsAssumption DEF Half

LEMMA PlusRange == ASSUME NEW n \in Int, NEW k \in Int PROVE Plus(n, k) \in Half
  BY ModRange DEF Plus, Half

LEMMA MinusRange == ASSUME NEW n \in Int, NEW k \in Int PROVE Minus(n, k) \in Half
  BY ModRange DEF Minus, Half

LEMMA HalfInt == /\ Half \subseteq Int /\ 0 \in Half
                 /\ Torn \in Int /\ Torn \notin Half
  BY ConstantsAssumption DEF Half, Torn

LEMMA TypeInit == Init => TypeInv
<1> SUFFICES ASSUME Init PROVE TypeInv
  OBVIOUS
<1> USE HalfInt, ConstantsAssumption DEF Init
<1>1. TypeHw
  <2>1. dst \in [Chan -> Slot]
    BY DEF Chan, Slot
  <2> QED
    BY <2>1 DEF TypeHw, Chan
<1>2. TypeData
  BY DEF TypeData
<1>3. TypeIsr
  <2> HIDE DEF Init
  <2>1. 0 \in 0 .. OverrunLimit
    BY ConstantsAssumption
  <2>2. 0 \in Slot
    BY DEF Slot
  <2> QED
    BY <2>1, <2>2 DEF TypeIsr, Init
<1>4. TypeService
  <2>1. IdleSvc \in [pc : {"idle", "entry", "book", "read", "process"},
                    proc : BOOLEAN, off : Slot, num : Half \cup {Torn}]
    BY DEF IdleSvc, Slot
  <2> QED
    BY <2>1 DEF TypeService
<1>5. TypeCommand
  BY DEF TypeCommand
<1>6. NeedInv
  BY DEF NeedInv, Sending, IdleSvc
<1> QED
  BY <1>1, <1>2, <1>3, <1>4, <1>5, <1>6 DEF TypeInv, TypeOK

LEMMA HwHalfType == TypeInv /\ HwHalf => TypeInv'
<1> SUFFICES ASSUME TypeInv, HwHalf PROVE TypeInv'
  OBVIOUS
<1> USE HalfInt DEF HwHalf, TypeInv, TypeOK
<1>1. TypeHw'
  <2>1. 1 - chan \in Chan
    BY DEF TypeHw, Chan
  <2> QED
    BY <2>1 DEF TypeHw
<1>2. TypeData'
  <2>1. dst[1 - chan] \in Slot
    BY DEF TypeHw, Chan
  <2>2. hwseq' \in Half
    BY PlusRange DEF TypeData
  <2> QED
    BY <2>1, <2>2 DEF TypeData
<1>3. TypeIsr'
  BY DEF TypeIsr, runVars, isrVars, pairVars
<1>4. TypeService'
  BY DEF TypeService, ppVars, spVars
<1>5. TypeCommand'
  BY ConstantsAssumption DEF TypeCommand, Later
<1>6. NeedInv'
  BY DEF NeedInv, Sending, isrVars, pairVars
<1> QED
  BY <1>1, <1>2, <1>3, <1>4, <1>5, <1>6

LEMMA DmaIsrType == TypeInv /\ DmaIsr => TypeInv'
<1> SUFFICES ASSUME TypeInv, DmaIsr PROVE TypeInv'
  OBVIOUS
<1> USE HalfInt DEF DmaIsr, TypeInv, TypeOK
<1> DEFINE braked == ovr /\ overrun_run' >= OverrunLimit
           half == 0 \in stat
           full == 1 \in stat
<1>0. overrun_run' \in 0 .. OverrunLimit /\ (~braked => overrun_run' < OverrunLimit)
  BY ConstantsAssumption DEF TypeIsr, NeedInv
<1>1. irq' \subseteq Chan /\ stat' = {} /\ ovr' = FALSE /\ UNCHANGED <<trig, chan>>
  BY DEF TypeHw
<1>2. TypeService' /\ TypeCommand'
  BY DEF TypeService, TypeCommand, ppVars, spVars, cmdVars
<1>3. CASE braked
  <2>1. Brake
    BY <1>3
  <2>2. TypeHw' /\ TypeData' /\ TypeIsr'
    BY <1>0, <1>1, <2>1 DEF Brake, TypeHw, TypeData, TypeIsr, pairVars
  <2>3. NeedInv'
    BY <2>1 DEF Brake, NeedInv, Sending, cmdVars, pairVars
  <2> QED
    BY <1>2, <2>2, <2>3
<1>4. CASE ~braked
  <2>1. Booked(half, full)
    BY <1>4
  <2> HIDE DEF DmaIsr, braked, half, full
  <2>2. Other(pair_base) \in {0, 2} /\ Other(pair_base) + 1 \in Slot /\ {0, 2} \subseteq Slot
        /\ pair_base + 1 \in Slot
    BY DEF TypeIsr, Other, Slot
  <2>3. dst' \in [Chan -> Slot] /\ UNCHANGED armed
    BY <2>1, <2>2 DEF Booked, TypeHw
  <2>4. TypeHw'
    BY <1>1, <2>3 DEF TypeHw
  <2>5. stamp' \in [Slot -> Half \cup {Torn}] /\ done' \in [Slot -> 0 .. 2]
    BY <2>1 DEF Booked, TypeData
  <2>6. TypeData'
    BY <2>5 DEF DmaIsr, TypeData
  <2>7. blocks_done' \in Half /\ late_service' \in Half /\ ready_off' \in Slot
    BY <2>1, <2>2, PlusRange DEF Booked, TypeIsr, Late, Ready
  <2>8. /\ pair_req' \in BOOLEAN /\ pair_moving' \in BOOLEAN
        /\ pair_base' \in {0, 2} /\ pair_frozen' \in {0, 2, NoSlot}
        /\ pair_frozen # NoSlot => pair_frozen' # NoSlot
    <3>1. CASE UNCHANGED <<pair_req, pair_frozen, pair_base>>
      BY <2>1, <3>1 DEF Booked, Turn, TypeIsr
    <3>2. CASE Turn(Other(pair_base))
      <4>1. pair_req' = FALSE /\ pair_moving' = FALSE
            /\ pair_frozen' = pair_base /\ pair_base' = Other(pair_base)
        BY <3>2 DEF Turn
      <4>2. Other(pair_base) \in {0, 2} /\ pair_base \in {0, 2}
        BY <2>2 DEF TypeIsr
      <4>3. pair_frozen' \in {0, 2, NoSlot} /\ pair_frozen' # NoSlot
        BY <4>1, <4>2 DEF NoSlot
      <4> QED
        BY <4>1, <4>2, <4>3
    <3> QED
      BY <2>1, <3>1, <3>2 DEF Booked
  <2>9. TypeIsr'
    BY <1>0, <2>1, <2>7, <2>8 DEF Booked, TypeIsr
  <2>10. NeedInv'
    BY <1>0, <1>4, <2>3, <2>8 DEF DmaIsr, NeedInv, Sending, cmdVars
  <2> QED
    BY <1>2, <2>4, <2>6, <2>9, <2>10
<1> QED
  BY <1>3, <1>4

SvcType == [pc : {"idle", "entry", "book", "read", "process"},
            proc : BOOLEAN, off : Slot, num : Half \cup {Torn}]

(* Going on after a call of capture_service() keeps the command's types. *)
LEMMA ResumeType ==
  ASSUME TypeInv, NEW x \in Ctx, Runs(x), Resume(x), UNCHANGED cret
  PROVE  /\ TypeCommand' /\ cpc' # "last"
         /\ Sending' => win' # NoSlot
         /\ cpc' = "send" => Len(frame)' < 2
         /\ ~Sending' => frame' = <<>>
<1> USE DEF TypeInv, TypeOK, TypeCommand, NeedInv, Sending
<1>1. CASE /\ x = "main" \/ cpc = "wait"
           /\ cpc' = IF x = "main" THEN cpc ELSE "time"
           /\ UNCHANGED <<asked, elapsed, win, frame>>
           /\ x = "main" => cpc = "idle"
  BY <1>1
<1>2. CASE /\ cpc = "last" /\ cpc' = "send" /\ win' = pair_frozen
           /\ elapsed' = 0 /\ UNCHANGED <<asked, frame>>
  <2>1. win' \in {0, 2, NoSlot} /\ win' # NoSlot
    BY <1>2 DEF TypeIsr
  <2>2. frame' = <<>> /\ Len(frame) = 0
    BY <1>2
  <2>3. elapsed' \in 0 .. (WaitHalves + 2)
    BY <1>2, ConstantsAssumption
  <2> QED
    BY <1>2, <2>1, <2>2, <2>3
<1>3. CASE /\ cpc = "poll"
           /\ cpc' \in {"end"} \cup (IF Len(frame) < 2 THEN {"send"} ELSE {})
           /\ UNCHANGED <<asked, elapsed, win, frame>>
  BY <1>3
<1> QED
  BY <1>1, <1>2, <1>3 DEF Resume, Runs, Ctx

LEMMA ServiceType == ASSUME TypeInv, NEW x \in Ctx, Service(x) PROVE TypeInv'
<1> USE HalfInt DEF TypeInv, TypeOK
<1>1. IdleSvc \in SvcType /\ svc \in [Ctx -> SvcType]
  BY DEF IdleSvc, SvcType, Slot, TypeService
<1>2. ASSUME svc' \in [Ctx -> SvcType], UNCHANGED <<sigproc_on, sp_fresh, sp_last_seq>>,
             seen_blocks' \in Half, missed' \in Half, sigproc_busy' \in BOOLEAN
      PROVE  TypeService'
  BY <1>2 DEF TypeService, SvcType
<1>3. CASE ServiceEnter(x)
  <2>1. svc' \in [Ctx -> SvcType] /\ svc'[x].pc = "entry"
        /\ \A y \in Ctx \ {x} : svc'[y] = svc[y]
    BY <1>1, <1>3 DEF ServiceEnter, SvcType, TypeService, IdleSvc
  <2> QED
    BY <1>2, <1>3, <2>1 DEF ServiceEnter, TypeHw, TypeData, TypeIsr, TypeService,
       TypeCommand, NeedInv, Sending, hwVars, dataVars, runVars, isrVars, pairVars,
       ppVars, spVars, cmdVars
<1>4. CASE ServiceLook(x)
  <2>1. svc' \in [Ctx -> SvcType] /\ svc'[x].num = blocks_done
        /\ \A y \in Ctx \ {x} : svc'[y] = svc[y]
    BY <1>1, <1>4 DEF ServiceLook, SvcType, TypeIsr
  <2> QED
    BY <1>2, <1>4, <2>1 DEF ServiceLook, TypeHw, TypeData, TypeIsr, TypeService,
       TypeCommand, NeedInv, Sending, hwVars, dataVars, runVars, isrVars, pairVars,
       ppVars, cmdVars
<1>5. CASE ServiceNothing(x)
  <2>1. svc' \in [Ctx -> SvcType] /\ svc'[x].pc = "idle"
        /\ \A y \in Ctx \ {x} : svc'[y] = svc[y]
    BY <1>1, <1>5 DEF ServiceNothing, SvcType, IdleSvc
  <2>2. /\ TypeCommand' /\ cpc' # "last" /\ (Sending' => win' # NoSlot)
        /\ cpc' = "send" => Len(frame)' < 2
        /\ ~Sending' => frame' = <<>>
    BY <1>5, ResumeType DEF ServiceNothing
  <2>3. TypeService'
    BY <1>2, <1>5, <2>1 DEF ServiceNothing, TypeService, ppVars
  <2> QED
    BY <1>5, <2>1, <2>2, <2>3 DEF ServiceNothing, TypeHw, TypeData, TypeIsr,
       NeedInv, hwVars, dataVars, runVars, isrVars, pairVars
<1>6. CASE ServiceBook(x)
  <2>1. svc' \in [Ctx -> SvcType] /\ svc'[x].pc = "read"
        /\ \A y \in Ctx \ {x} : svc'[y] = svc[y]
    BY <1>1, <1>6 DEF ServiceBook, SvcType
  <2>2. seen_blocks' \in Half
    BY <1>6 DEF ServiceBook, NeedInv
  <2>3. missed' \in Half
    <3>1. Minus(svc[x].num, seen_blocks) \in Half
      BY <1>6, MinusRange DEF ServiceBook, NeedInv, TypeService
    <3> QED
      BY <1>6, <3>1, PlusRange DEF ServiceBook, TypeService
  <2> QED
    BY <1>2, <1>6, <2>1, <2>2, <2>3 DEF ServiceBook, TypeHw, TypeData, TypeIsr,
       TypeService, TypeCommand, NeedInv, Sending, hwVars, dataVars, runVars,
       isrVars, pairVars, spVars, cmdVars
<1>7. CASE ServiceRead(x)
  <2>1. svc' \in [Ctx -> SvcType] /\ svc'[x].pc = "process"
        /\ \A y \in Ctx \ {x} : svc'[y] = svc[y]
    BY <1>1, <1>7 DEF ServiceRead, SvcType, TypeData, TypeIsr
  <2> QED
    BY <1>2, <1>7, <2>1 DEF ServiceRead, TypeHw, TypeData, TypeIsr, TypeService,
       TypeCommand, NeedInv, Sending, hwVars, dataVars, runVars, isrVars, pairVars,
       ppVars, spVars, cmdVars
<1>8. CASE ServiceProcess(x)
  <2>1. svc' \in [Ctx -> SvcType] /\ svc'[x].pc = "idle"
        /\ \A y \in Ctx \ {x} : svc'[y] = svc[y]
    BY <1>1, <1>8 DEF ServiceProcess, SvcType, IdleSvc
  <2>2. /\ TypeCommand' /\ cpc' # "last" /\ (Sending' => win' # NoSlot)
        /\ cpc' = "send" => Len(frame)' < 2
        /\ ~Sending' => frame' = <<>>
    BY <1>8, ResumeType DEF ServiceProcess
  <2>3. TypeData'
    BY <1>1, <1>8 DEF ServiceProcess, TypeData, SvcType
  <2>4. TypeService'
    BY <1>8, <2>1 DEF ServiceProcess, TypeService, SvcType, ppVars
  <2> QED
    BY <1>8, <2>1, <2>2, <2>3, <2>4 DEF ServiceProcess, TypeHw, TypeIsr,
       NeedInv, hwVars, runVars, isrVars, pairVars
<1> QED
  BY <1>3, <1>4, <1>5, <1>6, <1>7, <1>8 DEF Service

(* A console step that changes neither what the interrupt keeps nor the    *)
(* bookkeeping of capture_service(), and moves on in the command.          *)
LEMMA CommandOnly ==
  ASSUME TypeInv, TypeCommand',
         UNCHANGED <<hwVars, dataVars, runVars, isrVars, ppVars, spVars, svc>>,
         pair_req' \in BOOLEAN, pair_frozen' \in {0, 2, NoSlot},
         UNCHANGED <<pair_base, pair_moving>>,
         cpc' = "last" => pair_frozen' # NoSlot,
         Sending' => win' # NoSlot,
         cpc' = "send" => Len(frame)' < 2,
         ~Sending' => frame' = <<>>
  PROVE  TypeInv'
BY DEF TypeInv, TypeOK, TypeHw, TypeData, TypeIsr, TypeService, NeedInv, hwVars,
       dataVars, runVars, isrVars, ppVars, spVars

LEMMA GrabType == TypeInv /\ Grab => TypeInv'
<1> SUFFICES ASSUME TypeInv, Grab PROVE TypeInv'
  OBVIOUS
<1> USE HalfInt, ConstantsAssumption
    DEF TypeInv, TypeOK, TypeCommand, NeedInv, Sending
<1> USE DEF pairVars
<1>1. CASE GrabBegin
  BY <1>1, CommandOnly DEF GrabBegin, Typed, TypeIsr
<1>2. CASE Freeze
  BY <1>2, CommandOnly DEF Freeze, TypeIsr
<1>3. CASE Ask
  BY <1>3, CommandOnly DEF Ask, TypeIsr
<1>4. CASE Check
  BY <1>4, CommandOnly DEF Check, TypeIsr
<1>5. CASE InTime
  BY <1>5, CommandOnly DEF InTime, TypeIsr
<1>6. CASE TimedOut
  <2>1. elapsed' \in 0 .. (WaitHalves + 2)
    BY <1>6 DEF TimedOut
  <2> QED
    BY <1>6, <2>1, CommandOnly DEF TimedOut, TypeIsr
<1>7. CASE Send
  <2>1. win + Len(frame) \in Slot
    BY <1>7 DEF Send, Slot, NoSlot
  <2>2. [num |-> stamp[win + Len(frame)], done |-> done[win + Len(frame)]]
           \in [num : Half \cup {Torn}, done : 0 .. 2]
    BY <2>1 DEF TypeData
  <2>3. frame' \in Seq([num : Half \cup {Torn}, done : 0 .. 2]) /\ Len(frame') <= 2
    BY <1>7, <2>2 DEF Send
  <2> QED
    BY <1>7, <2>3, CommandOnly DEF Send, TypeIsr
<1>8. CASE GrabEnd
  <2>1. frame' \in Seq([num : Half \cup {Torn}, done : 0 .. 2]) /\ Len(frame') <= 2
    BY <1>8 DEF GrabEnd
  <2> QED
    BY <1>8, <2>1, CommandOnly DEF GrabEnd, TypeIsr
<1> QED
  BY <1>1, <1>2, <1>3, <1>4, <1>5, <1>6, <1>7, <1>8 DEF Grab

LEMMA ConsoleType == TypeInv /\ Console => TypeInv'
<1> SUFFICES ASSUME TypeInv, Console PROVE TypeInv'
  OBVIOUS
<1> USE HalfInt DEF TypeInv, TypeOK, TypeCommand, NeedInv, Sending, pairVars
<1>1. CASE StreamOff
  BY <1>1, CommandOnly DEF StreamOff, Typed, TypeIsr
<1>2. CASE OnRefused
  BY <1>2, CommandOnly DEF OnRefused, TypeIsr
<1>3. CASE StreamOn
  <2> USE <1>3 DEF StreamOn
  <2>1. PICK ok \in BOOLEAN :
          /\ trig' = ok /\ armed' = ok
          /\ run_enabled' = ok /\ chain_mode' = ok /\ s_on' = ok
          /\ hwseq' = IF ok THEN Plus(blocks_done, 1) ELSE hwseq
          /\ stamp' = [s \in Slot |-> IF ok /\ s = 0 THEN hwseq' ELSE Torn]
    OBVIOUS
  <2>2. TypeHw'
    <3>1. dst' \in [Chan -> Slot] /\ chan' \in Chan
      BY DEF Chan, Slot
    <3>2. trig' \in BOOLEAN /\ armed' \in BOOLEAN
      BY <2>1
    <3> QED
      BY <3>1, <3>2 DEF TypeHw
  <2>3. hwseq' \in Half \cup {Torn}
    BY <2>1, PlusRange DEF TypeData, TypeIsr
  <2>4. TypeData'
    BY <2>1, <2>3 DEF TypeData
  <2>5. overrun_run' \in 0 .. OverrunLimit /\ overrun_run' < OverrunLimit
    BY ConstantsAssumption DEF CountersClear
  <2>6. 0 \in Slot /\ NoSlot \in {0, 2, NoSlot}
    BY DEF Slot
  <2>7. TypeIsr'
    BY <2>1, <2>5, <2>6 DEF TypeIsr, CountersClear
  <2>8. TypeService'
    BY DEF TypeService, TypeIsr, CountersClear
  <2>9. TypeCommand'
    OBVIOUS
  <2>10. NeedInv'
    <3>1. ~Sending' /\ cpc' # "last" /\ cpc' # "send"
      OBVIOUS
    <3>2. frame' = <<>> /\ svc' = svc
      BY DEF Typed
    <3> QED
      BY <2>5, <3>1, <3>2
  <2> QED
    BY <2>2, <2>4, <2>7, <2>8, <2>9, <2>10
<1>4. CASE Sigproc
  BY <1>4 DEF Sigproc, TypeHw, TypeData, TypeIsr, TypeService, hwVars, dataVars,
     runVars, isrVars, ppVars, cmdVars
<1>5. CASE Clear
  <2> USE <1>5 DEF Clear, CountersClear
  <2>1. overrun_run' \in 0 .. OverrunLimit /\ overrun_run' < OverrunLimit
    BY ConstantsAssumption
  <2>2. TypeIsr' /\ TypeService'
    BY <2>1 DEF TypeIsr, TypeService, runVars
  <2>3. TypeHw' /\ TypeData' /\ TypeCommand'
    BY DEF TypeHw, TypeData, hwVars, dataVars, cmdVars
  <2> QED
    BY <2>1, <2>2, <2>3 DEF hwVars, cmdVars
<1>6. CASE OffTrigger
  <2> USE <1>6 DEF OffTrigger
  <2>1. TypeHw'
    BY DEF TypeHw
  <2>2. TypeData'
    BY DEF TypeData, dataVars
  <2>3. TypeIsr'
    BY DEF TypeIsr, isrVars, runVars
  <2>4. TypeService'
    BY DEF TypeService, ppVars, spVars
  <2>5. TypeCommand'
    OBVIOUS
  <2> QED
    BY <2>1, <2>2, <2>3, <2>4, <2>5 DEF isrVars
<1>7. CASE OffRun
  <2> USE <1>7 DEF OffRun
  <2>1. TypeHw'
    BY DEF TypeHw, hwVars
  <2>2. TypeData'
    BY DEF TypeData, dataVars
  <2>3. TypeIsr'
    BY DEF TypeIsr, isrVars
  <2>4. TypeService'
    BY DEF TypeService, ppVars, spVars
  <2>5. TypeCommand'
    OBVIOUS
  <2> QED
    BY <2>1, <2>2, <2>3, <2>4, <2>5 DEF isrVars, hwVars
<1>8. CASE OffMode
  <2> USE <1>8 DEF OffMode
  <2>1. TypeHw'
    BY DEF TypeHw, hwVars
  <2>2. TypeData'
    BY DEF TypeData, dataVars
  <2>3. TypeIsr'
    BY DEF TypeIsr, isrVars
  <2>4. TypeService'
    BY DEF TypeService, ppVars, spVars
  <2>5. TypeCommand'
    OBVIOUS
  <2> QED
    BY <2>1, <2>2, <2>3, <2>4, <2>5 DEF isrVars, hwVars
<1>9. CASE OffDma
  <2> USE <1>9 DEF OffDma
  <2>1. TypeHw'
    BY DEF TypeHw
  <2>2. TypeData'
    BY DEF TypeData, dataVars
  <2>3. TypeIsr'
    BY DEF TypeIsr, isrVars
  <2>4. TypeService'
    BY DEF TypeService, ppVars, spVars
  <2>5. TypeCommand'
    OBVIOUS
  <2> QED
    BY <2>1, <2>2, <2>3, <2>4, <2>5 DEF isrVars
<1>10. CASE Grab
  BY <1>10, GrabType
<1> QED
  BY <1>1, <1>2, <1>3, <1>4, <1>5, <1>6, <1>7, <1>8, <1>9, <1>10 DEF Console, Off

LEMMA TypeStep == TypeInv /\ [Next]_vars => TypeInv'
<1> SUFFICES ASSUME TypeInv, [Next]_vars PROVE TypeInv'
  OBVIOUS
<1>1. CASE HwStall
  <2>1. elapsed' \in 0 .. (WaitHalves + 2)
    BY <1>1, ConstantsAssumption DEF HwStall, Later, TypeInv, TypeOK, TypeCommand
  <2>2. TypeCommand'
    BY <1>1, <2>1 DEF HwStall, TypeInv, TypeOK, TypeCommand
  <2> QED
    BY <1>1, <2>2, CommandOnly DEF HwStall, TypeInv, TypeOK, TypeIsr, NeedInv,
       Sending, pairVars
<1>2. CASE Overrun
  <2> USE <1>2 DEF Overrun, TypeInv, TypeOK
  <2>1. TypeHw'
    BY DEF TypeHw
  <2>2. TypeData' /\ TypeIsr'
    BY DEF TypeData, TypeIsr, dataVars, runVars, isrVars, pairVars
  <2>3. TypeService' /\ TypeCommand'
    BY DEF TypeService, TypeCommand, ppVars, spVars, cmdVars
  <2> QED
    BY <2>1, <2>2, <2>3 DEF NeedInv, Sending, isrVars, pairVars, cmdVars
<1>3. CASE UNCHANGED vars
  <2> USE <1>3 DEF vars, TypeInv, TypeOK
  <2>1. TypeHw' /\ TypeData' /\ TypeIsr'
    BY DEF TypeHw, TypeData, TypeIsr, hwVars, dataVars, runVars, isrVars, pairVars
  <2>2. TypeService' /\ TypeCommand'
    BY DEF TypeService, TypeCommand, ppVars, spVars, cmdVars
  <2> QED
    BY <2>1, <2>2 DEF NeedInv, Sending, hwVars, isrVars, pairVars, cmdVars
<1> QED
  BY <1>1, <1>2, <1>3, HwHalfType, DmaIsrType, ServiceType, ConsoleType
  DEF Next, Hardware

(* Every variable keeps its type, whatever the timing: the counters stay   *)
(* below W, the DMA's two addresses inside the buffer of four halves, the  *)
(* brake stops overrun_run at its limit (capture.c:463-479).               *)
THEOREM TypeCorrect == Spec => []TypeOK
<1>1. Init => TypeInv
  BY TypeInit
<1>2. TypeInv /\ [Next]_vars => TypeInv'
  BY TypeStep
<1>3. TypeInv => TypeOK
  BY DEF TypeInv
<1> QED
  BY <1>1, <1>2, <1>3, PTL DEF Spec

-----------------------------------------------------------------------------
Regular == ~Lossy /\ WaitHalves >= 4
Timely == TimelyIsr /\ Regular

(* The state IInv speaks of, apart from the types. *)
CoreInv == BookingInv /\ TargetInv /\ ContentInv /\ HeldInv /\ WaitInv /\ TriggerInv

pairView == <<trig, armed, chan, dst, stat, irq, hwseq, stamp, pairVars>>

LEMMA CoreInit == Init => CoreInv
  BY DEF Init, CoreInv, BookingInv, TargetInv, ContentInv, HeldInv, Held, WaitInv,
     TriggerInv, Sending, Loop

(* Steps that leave the stream alone and stay at their program point. *)
LEMMA CoreSame ==
  ASSUME CoreInv, UNCHANGED <<pairView, cpc, win, elapsed>>
  PROVE  CoreInv'
  BY DEF CoreInv, BookingInv, TargetInv, ContentInv, HeldInv, Held, WaitInv,
     TriggerInv, Sending, Loop, pairView, pairVars, Whole

(* Steps of the console command that leave the stream alone and do not     *)
(* enter or leave the wait for a pair.                                     *)
LEMMA CoreMove ==
  ASSUME CoreInv, UNCHANGED <<pairView, elapsed>>,
         cpc' \in Loop <=> cpc \in Loop,
         cpc' # "ask",
         (Held' => Held), (Sending' => Held /\ win' = pair_frozen),
         cpc \in {"off_run", "off_mode", "off_dma"} =>
            cpc' \in {"off_run", "off_mode", "off_dma"}
  PROVE  CoreInv'
  BY DEF CoreInv, BookingInv, TargetInv, ContentInv, HeldInv, WaitInv,
     TriggerInv, pairView, pairVars, Whole

(* A half completes: the other channel starts where it is directed, which  *)
(* is never the pair a grab holds.                                         *)
LEMMA HeldHwHalf ==
  ASSUME TypeInv, HeldInv, HwHalf PROVE HeldInv'
<1>1. UNCHANGED <<dst, pairVars, cpc, win>> /\ chan \in {0, 1}
  BY DEF HwHalf, TypeInv, TypeOK, TypeHw, Chan
<1>2. dst[1 - chan] \in Slot /\ pair_base \in {0, 2}
  BY <1>1 DEF TypeInv, TypeOK, TypeHw, TypeIsr, Chan
<1>3. \A s \in Slot \ {dst[1 - chan]} : stamp'[s] = stamp[s]
  BY <1>2 DEF HwHalf, TypeInv, TypeOK, TypeData
<1>4. ASSUME Held PROVE Whole(pair_frozen)'
  <2>1. /\ pair_frozen \in {0, 2} /\ pair_frozen # pair_base /\ Whole(pair_frozen)
        /\ dst[0] = pair_base /\ dst[1] = pair_base + 1
    BY <1>4 DEF HeldInv
  <2>2. dst[1 - chan] \in {pair_base, pair_base + 1}
    BY <1>1, <2>1
  <2>3. pair_frozen \in Slot \ {dst[1 - chan]} /\ pair_frozen + 1 \in Slot \ {dst[1 - chan]}
    BY <1>2, <2>1, <2>2 DEF Slot
  <2> QED
    BY <1>1, <1>3, <2>1, <2>3 DEF Whole, pairVars
<1> QED
  BY <1>1, <1>4 DEF HeldInv, Held, Sending, pairVars

LEMMA CoreHwHalf ==
  ASSUME Regular, TypeInv, CoreInv, stat = {}, HwHalf PROVE CoreInv'
<1>1. /\ armed /\ trig
      /\ UNCHANGED <<trig, armed, dst, pairVars, cpc, win>>
      /\ stat' = {chan} /\ irq' # {} /\ chan' = 1 - chan /\ chan \in {0, 1}
      /\ hwseq' = Plus(hwseq, 1) /\ elapsed' = Later
  BY DEF HwHalf, TypeInv, TypeOK, TypeHw, Chan
<1>2. /\ dst[1] = pair_base + 1 /\ pair_base \in {0, 2}
      /\ dst[0] = IF pair_moving THEN Other(pair_base) ELSE pair_base
      /\ Other(pair_base) \in {0, 2} /\ Other(pair_base) # pair_base
      /\ pair_moving => chan = 1
  BY <1>1 DEF CoreInv, TargetInv, TypeInv, TypeOK, TypeIsr, Other
<1>3. BookingInv' /\ TriggerInv'
  BY <1>1 DEF BookingInv, TriggerInv
<1>4. TargetInv'
  BY <1>1, <1>2 DEF TargetInv, pairVars
<1>5. dst[1 - chan] \in Slot /\ dst[chan] \in Slot
  BY <1>1 DEF TypeInv, TypeOK, TypeHw, Chan
<1>6. /\ stamp'[dst[1 - chan]] = hwseq'
      /\ \A s \in Slot \ {dst[1 - chan]} : stamp'[s] = stamp[s]
  BY <1>5 DEF HwHalf, TypeInv, TypeOK, TypeData
<1>7. hwseq' \in Half /\ hwseq \in Half
  <2>1. hwseq \in Half /\ hwseq \in Int
    BY <1>1, HalfInt DEF CoreInv, ContentInv
  <2>2. Plus(hwseq, 1) \in Half
    BY <2>1, PlusRange
  <2> QED
    BY <1>1, <2>1, <2>2
<1>8. ContentInv'
  <2>1. CASE chan = 0
    <3>1. ~pair_moving /\ dst[0] = pair_base /\ dst[1] = pair_base + 1
      BY <1>2, <2>1
    <3>2. stamp'[pair_base] = hwseq
      BY <1>1, <1>2, <1>5, <1>6, <2>1, <3>1 DEF CoreInv, ContentInv
    <3> QED
      BY <1>1, <1>6, <1>7, <2>1, <3>1, <3>2, HalfInt DEF ContentInv, pairVars
  <2>2. CASE chan = 1
    <3>1. stamp'[dst'[chan']] = hwseq' /\ chan' = 0
      BY <1>1, <1>6, <2>2
    <3>2. ASSUME pair_moving PROVE Whole(pair_base)'
      <4>1. dst[0] = Other(pair_base) /\ pair_base \in Slot /\ pair_base + 1 \in Slot
        BY <1>2, <3>2 DEF Slot
      <4>2. stamp'[pair_base] = stamp[pair_base] /\ stamp'[pair_base + 1] = hwseq
        BY <1>1, <1>2, <1>6, <2>2, <4>1 DEF CoreInv, ContentInv
      <4> QED
        BY <1>1, <1>7, <2>2, <4>2, HalfInt DEF Whole, CoreInv, ContentInv, pairVars
    <3> QED
      BY <1>1, <1>7, <3>1, <3>2 DEF ContentInv, pairVars
  <2> QED
    BY <1>1, <2>1, <2>2
<1>9. HeldInv'
  BY HeldHwHalf DEF CoreInv
<1>10. WaitInv'
  <2>1. ASSUME cpc \in Loop, pair_frozen = NoSlot PROVE elapsed' = elapsed + 1
    <3>1. elapsed \in Int /\ elapsed <= 3
      BY <1>1, <1>2, <2>1 DEF CoreInv, WaitInv, TypeInv, TypeOK, TypeCommand
    <3>2. Asking /\ WaitHalves \in Int /\ WaitHalves >= 4
      BY <2>1, ConstantsAssumption DEF Asking, Loop, Regular
    <3> QED
      BY <1>1, <3>1, <3>2 DEF Later
  <2> QED
    BY <1>1, <1>2, <2>1 DEF CoreInv, WaitInv, pairVars, TypeInv, TypeOK, TypeCommand
<1> QED
  BY <1>3, <1>4, <1>8, <1>9, <1>10 DEF CoreInv

LEMMA CoreHwStall ==
  ASSUME Regular, CoreInv, HwStall PROVE CoreInv'
<1>1. UNCHANGED <<pairView, cpc, win>> /\ ~(trig /\ armed)
  BY DEF Regular, HwStall, pairView, hwVars, dataVars
<1>2. cpc \in Loop => ~armed
  BY <1>1 DEF CoreInv, TriggerInv, Loop
<1> QED
  BY <1>1, <1>2 DEF CoreInv, BookingInv, TargetInv, ContentInv, HeldInv, Held, WaitInv,
     TriggerInv, Sending, pairView, pairVars, Whole

LEMMA CoreOverrun ==
  ASSUME CoreInv, Overrun PROVE CoreInv'
  BY DEF Overrun, dataVars, cmdVars, CoreInv, BookingInv, TargetInv, ContentInv,
     HeldInv, Held, WaitInv, TriggerInv, Sending, pairVars, Whole

(* The brake: the channels stop where they are. *)
LEMMA CoreBrake ==
  ASSUME CoreInv, DmaIsr, Brake PROVE CoreInv'
  BY DEF DmaIsr, Brake, cmdVars, CoreInv, BookingInv, TargetInv, ContentInv,
     HeldInv, Held, WaitInv, TriggerInv, Sending, pairVars, Whole

(* A half is booked: the two steps of a move. *)
LEMMA CoreBooked ==
  ASSUME TypeInv, CoreInv, DmaIsr, Booked(0 \in stat, 1 \in stat)
  PROVE  CoreInv'
<1> DEFINE next == Other(pair_base)
<1>1. /\ armed /\ armed' /\ stat' = {}
      /\ UNCHANGED <<trig, chan, hwseq, cpc, win, elapsed>>
      /\ pair_base \in {0, 2} /\ next \in {0, 2} /\ next # pair_base
  BY DEF DmaIsr, Booked, cmdVars, TypeInv, TypeOK, TypeIsr, Other
<1> DEFINE moves == 0 \in stat /\ pair_req /\ ~pair_moving
           turns == 1 \in stat /\ (pair_moving \/ moves)
           to    == [c \in Chan |-> IF c = 0 /\ moves THEN next
                                    ELSE IF c = 1 /\ turns THEN next + 1
                                    ELSE dst[c]]
           torn  == IF to[chan] = dst[chan] THEN {} ELSE {to[chan], dst[chan]}
<1>2. /\ dst' = to /\ stamp' = [s \in Slot |-> IF s \in torn THEN Torn ELSE stamp[s]]
      /\ IF turns THEN Turn(next)
         ELSE /\ pair_moving' = (pair_moving \/ moves)
              /\ UNCHANGED <<pair_req, pair_frozen, pair_base>>
  BY DEF Booked
<1>3. chan \in Chan /\ 0 \in Chan /\ 1 \in Chan
  BY DEF TypeInv, TypeOK, TypeHw, Chan
<1>4. dst'[0] = (IF moves THEN next ELSE dst[0]) /\ dst'[1] = (IF turns THEN next + 1 ELSE dst[1])
  BY <1>2, <1>3
<1>5. ASSUME to[chan] = dst[chan] PROVE stamp' = stamp
  BY <1>2, <1>5 DEF TypeInv, TypeOK, TypeData
<1>6. CASE stat = {}
  <2>1. ~moves /\ ~turns
    BY <1>6
  <2>2. dst' = dst
    BY <1>2, <2>1 DEF TypeInv, TypeOK, TypeHw
  <2>3. UNCHANGED <<dst, stamp, pair_req, pair_frozen, pair_base>> /\ pair_moving' = pair_moving
    BY <1>2, <1>5, <2>1, <2>2 DEF TypeInv, TypeOK, TypeIsr
  <2> QED
    BY <1>1, <1>6, <2>3 DEF CoreInv, BookingInv, TargetInv, ContentInv, HeldInv,
       Held, WaitInv, TriggerInv, Sending, Whole
<1>7. CASE stat = {0} /\ chan = 1
  <2>1. ~turns /\ ~pair_moving
    BY <1>1, <1>7 DEF CoreInv, TargetInv
  <2>2. stamp' = stamp /\ dst'[1] = dst[1] /\ UNCHANGED <<pair_req, pair_frozen, pair_base>>
        /\ pair_moving' = moves
    BY <1>2, <1>3, <1>4, <1>5, <1>7, <2>1
  <2>3. moves => ~Held
    BY DEF CoreInv, HeldInv
  <2>4. BookingInv' /\ TriggerInv' /\ TargetInv'
    BY <1>1, <1>4, <1>7, <2>1, <2>2 DEF CoreInv, BookingInv, TriggerInv, TargetInv
  <2>5. ContentInv'
    BY <1>1, <1>4, <1>7, <2>2 DEF CoreInv, ContentInv
  <2>6. HeldInv'
    BY <1>1, <1>4, <2>1, <2>2, <2>3 DEF CoreInv, HeldInv, Held, Sending, Whole
  <2>7. WaitInv'
    BY <1>1, <1>7, <2>1, <2>2 DEF CoreInv, WaitInv, TypeInv, TypeOK, TypeCommand
  <2> QED
    BY <2>4, <2>5, <2>6, <2>7 DEF CoreInv
<1>8. CASE stat = {1} /\ chan = 0
  <2>1. ~moves /\ dst'[0] = dst[0] /\ stamp' = stamp
    BY <1>3, <1>4, <1>5, <1>8
  <2>2. CASE ~pair_moving
    <3>1. dst'[1] = dst[1] /\ UNCHANGED <<pair_req, pair_frozen, pair_base, pair_moving>>
      BY <1>2, <1>4, <2>1, <2>2 DEF TypeInv, TypeOK, TypeIsr
    <3> QED
      BY <1>1, <1>8, <2>1, <2>2, <3>1 DEF CoreInv, BookingInv, TargetInv, ContentInv,
         HeldInv, Held, WaitInv, TriggerInv, Sending, Whole
  <2>3. CASE pair_moving
    <3>1. /\ dst'[1] = next + 1 /\ pair_frozen' = pair_base /\ pair_base' = next
          /\ pair_moving' = FALSE /\ pair_req' = FALSE
      BY <1>2, <1>4, <1>8, <2>3 DEF Turn
    <3>2. dst[0] = next /\ Whole(pair_base) /\ ~Held /\ cpc \in Loop
      BY <1>1, <1>8, <2>3 DEF CoreInv, TargetInv, ContentInv, HeldInv, WaitInv
    <3>3. BookingInv' /\ TriggerInv' /\ TargetInv'
      BY <1>1, <2>1, <3>1, <3>2 DEF CoreInv, BookingInv, TriggerInv, TargetInv
    <3>4. ContentInv'
      BY <1>1, <1>8, <2>1, <3>1, <3>2 DEF CoreInv, ContentInv
    <3>5. HeldInv'
      BY <1>1, <2>1, <3>1, <3>2 DEF CoreInv, HeldInv, Held, Sending, Loop, Whole
    <3>6. WaitInv'
      BY <1>1, <3>1, <3>2 DEF WaitInv, NoSlot
    <3> QED
      BY <3>3, <3>4, <3>5, <3>6 DEF CoreInv
  <2> QED
    BY <2>2, <2>3
<1> QED
  BY <1>1, <1>6, <1>7, <1>8 DEF CoreInv, BookingInv

LEMMA CoreDmaIsr ==
  ASSUME TypeInv, CoreInv, DmaIsr PROVE CoreInv'
<1>1. Brake \/ Booked(0 \in stat, 1 \in stat)
  BY DEF DmaIsr
<1> QED
  BY <1>1, CoreBrake, CoreBooked

LEMMA CoreService ==
  ASSUME TypeInv, CoreInv, NEW x \in Ctx, Service(x) PROVE CoreInv'
<1>1. UNCHANGED pairView
  BY DEF Service, ServiceEnter, ServiceLook, ServiceNothing, ServiceBook, ServiceRead,
     ServiceProcess, pairView, hwVars, dataVars
<1>2. CASE UNCHANGED cmdVars
  BY <1>1, <1>2, CoreSame DEF cmdVars
<1>3. CASE Resume(x) /\ Runs(x)
  <2>1. CASE x = "main" /\ UNCHANGED <<cpc, asked, elapsed, win, frame>>
    BY <1>1, <2>1, CoreSame
  <2>2. CASE cpc = "wait" /\ cpc' = "time" /\ UNCHANGED <<asked, elapsed, win, frame>>
    BY <1>1, <2>2, CoreMove DEF Held, Sending, Loop, pairView, pairVars
  <2>3. CASE cpc = "last" /\ cpc' = "send" /\ win' = pair_frozen /\ elapsed' = 0
    BY <1>1, <2>3 DEF CoreInv, BookingInv, TargetInv, ContentInv, HeldInv, Held,
       WaitInv, TriggerInv, Sending, Loop, pairView, pairVars, Whole
  <2>4. CASE cpc = "poll" /\ cpc' \in {"end", "send"} /\ UNCHANGED <<elapsed, win>>
    <3>1. Sending /\ Held /\ win = pair_frozen
      BY <2>4 DEF Sending, Held, CoreInv, HeldInv
    <3> QED
      BY <1>1, <2>4, <3>1, CoreMove DEF Loop, pairView, pairVars
  <2> QED
    BY <1>3, <2>1, <2>2, <2>3, <2>4 DEF Resume, Runs, Ctx
<1> QED
  BY <1>2, <1>3 DEF Service, ServiceEnter, ServiceLook, ServiceNothing, ServiceBook,
     ServiceRead, ServiceProcess

(* A grab that gives up on a stream that still runs cannot happen while it *)
(* waits for its pair: at most three halves have completed.                *)
LEMMA NotRefused ==
  ASSUME Regular, TypeInv, CoreInv, cpc \in Loop, pair_frozen = NoSlot, armed
  PROVE  elapsed < WaitHalves
<1>1. pair_moving => chan = 1 \/ chan = 0
  BY DEF TypeInv, TypeOK, TypeHw, Chan
<1>2. elapsed \in Int /\ elapsed <= 3
  BY <1>1 DEF CoreInv, WaitInv, TypeInv, TypeOK, TypeCommand
<1> QED
  BY <1>2, ConstantsAssumption DEF Regular

LEMMA CoreGrab ==
  ASSUME Regular, TypeInv, CoreInv, Grab PROVE CoreInv'
<1>0. /\ ~pair_req \/ ~armed \/ cpc \in Loop
      /\ ~pair_moving \/ ~armed \/ cpc \in Loop
  BY DEF CoreInv, WaitInv
<1>1. CASE GrabBegin
  BY <1>1, CoreMove DEF GrabBegin, Typed, Held, Sending, Loop, pairView, hwVars, dataVars
<1>2. CASE Freeze
  BY <1>2 DEF Freeze, hwVars, dataVars, CoreInv, BookingInv, TargetInv, ContentInv,
     HeldInv, Held, WaitInv, TriggerInv, Sending, Loop, pairVars, Whole
<1>3. CASE Ask
  BY <1>3 DEF Ask, hwVars, dataVars, CoreInv, BookingInv, TargetInv, ContentInv,
     HeldInv, Held, WaitInv, TriggerInv, Sending, Loop, pairVars, Whole
<1>4. CASE Check
  BY <1>4 DEF Check, hwVars, dataVars, CoreInv, BookingInv, TargetInv, ContentInv,
     HeldInv, Held, WaitInv, TriggerInv, Sending, Loop, pairVars, Whole
<1>5. CASE InTime
  BY <1>5, CoreMove DEF InTime, Held, Sending, Loop, pairView, pairVars, hwVars, dataVars
<1>6. CASE TimedOut
  <2>1. pair_frozen = NoSlot => ~armed
    BY <1>6, NotRefused, ConstantsAssumption DEF TimedOut, Loop, TypeInv, TypeOK, TypeCommand
  <2>2. pair_frozen # NoSlot => ~pair_req /\ ~pair_moving
    BY <1>6 DEF TimedOut, CoreInv, HeldInv, Held, Loop
  <2> QED
    BY <1>6, <2>1, <2>2 DEF TimedOut, hwVars, dataVars, CoreInv, BookingInv, TargetInv,
       ContentInv, HeldInv, Held, WaitInv, TriggerInv, Sending, Loop, Whole
<1>7. CASE Send
  <2>1. Sending /\ Held /\ win = pair_frozen
    BY <1>7 DEF Send, Sending, Held, CoreInv, HeldInv
  <2> QED
    BY <1>7, <2>1, CoreMove DEF Send, Loop, pairView, pairVars, hwVars, dataVars
<1>8. CASE GrabEnd
  BY <1>8 DEF GrabEnd, hwVars, dataVars, CoreInv, BookingInv, TargetInv, ContentInv,
     HeldInv, Held, WaitInv, TriggerInv, Sending, Loop, Whole
<1> QED
  BY <1>1, <1>2, <1>3, <1>4, <1>5, <1>6, <1>7, <1>8 DEF Grab

(* "stream off" and "stream on": the grab is over, nothing is asked for.   *)
LEMMA CoreOff ==
  ASSUME TypeInv, CoreInv, StreamOff \/ OnRefused \/ Off PROVE CoreInv'
<1>1. CASE StreamOff
  BY <1>1, CoreMove DEF StreamOff, Typed, Held, Sending, Loop, pairView, hwVars, dataVars
<1>2. CASE OnRefused
  BY <1>2, CoreMove DEF OnRefused, Held, Sending, Loop, pairView, hwVars, dataVars
<1>3. CASE OffTrigger
  BY <1>3 DEF OffTrigger, dataVars, CoreInv, BookingInv, TargetInv, ContentInv,
     HeldInv, Held, WaitInv, TriggerInv, Sending, Loop, pairVars, Whole
<1>4. CASE OffRun
  BY <1>4, CoreMove DEF OffRun, Held, Sending, Loop, pairView, hwVars, dataVars
<1>5. CASE OffMode
  BY <1>5, CoreMove DEF OffMode, Held, Sending, Loop, pairView, hwVars, dataVars
<1>6. CASE OffDma
  <2>1. cpc' \in {"idle", "on"} /\ ~armed'
    BY <1>6 DEF OffDma, TypeInv, TypeOK, TypeCommand
  <2> QED
    BY <2>1 DEF CoreInv, BookingInv, TargetInv, ContentInv, HeldInv, Held, WaitInv,
       TriggerInv, Sending, Loop
<1> QED
  BY <1>1, <1>2, <1>3, <1>4, <1>5, <1>6 DEF Off

LEMMA CoreOn ==
  ASSUME TypeInv, StreamOn PROVE CoreInv'
<1>1. /\ cpc' = "idle" /\ pair_base' = 0 /\ ~pair_req' /\ ~pair_moving'
      /\ dst' = [c \in Chan |-> c] /\ chan' = 0 /\ stat' = {} /\ trig' = armed'
  BY DEF StreamOn
<1>2. armed' => hwseq' \in Half /\ stamp'[0] = hwseq'
  <2>1. PICK ok \in BOOLEAN :
          /\ armed' = ok
          /\ hwseq' = IF ok THEN Plus(blocks_done, 1) ELSE hwseq
          /\ stamp' = [s \in Slot |-> IF ok /\ s = 0 THEN hwseq' ELSE Torn]
    BY DEF StreamOn
  <2>2. Plus(blocks_done, 1) \in Half
    BY PlusRange, HalfInt DEF TypeInv, TypeOK, TypeIsr
  <2> QED
    BY <2>1, <2>2 DEF Slot
<1>3. dst'[0] = 0 /\ dst'[1] = 1
  BY <1>1 DEF Chan
<1> QED
  BY <1>1, <1>2, <1>3 DEF CoreInv, BookingInv, TargetInv, ContentInv, HeldInv, Held,
     WaitInv, TriggerInv, Sending, Loop

LEMMA CoreSettings ==
  ASSUME CoreInv, Sigproc \/ Clear PROVE CoreInv'
  BY CoreSame DEF Sigproc, Clear, hwVars, dataVars, cmdVars, pairView

LEMMA CoreStep ==
  ASSUME Timely, TypeInv, CoreInv, [Next]_vars PROVE CoreInv'
<1>1. CASE Hardware
  <2>1. HwHalf => stat = {}
    BY DEF Timely, HwHalf, CoreInv, BookingInv
  <2> QED
    BY <1>1, <2>1, CoreHwHalf, CoreHwStall, CoreOverrun DEF Hardware, Timely
<1>2. CASE Console
  BY <1>2, CoreOff, CoreOn, CoreSettings, CoreGrab DEF Console, Timely
<1>3. CASE UNCHANGED vars
  BY <1>3, CoreSame DEF vars, hwVars, dataVars, cmdVars, pairView
<1> QED
  BY <1>1, <1>2, <1>3, CoreDmaIsr, CoreService DEF Next

(* A stream that says it runs has its channels armed, whatever happens. *)
LEMMA LiveStep ==
  ASSUME TypeInv, LiveInv, [Next]_vars PROVE LiveInv'
<1>1. CASE HwHalf \/ HwStall \/ Overrun
  BY <1>1 DEF HwHalf, HwStall, Overrun, LiveInv, hwVars, runVars, cmdVars
<1>2. CASE DmaIsr
  BY <1>2 DEF DmaIsr, Brake, Booked, LiveInv, cmdVars
<1>3. ASSUME NEW x \in Ctx, Service(x) PROVE LiveInv'
  <2>1. armed' = armed /\ run_enabled' = run_enabled
    BY <1>3 DEF Service, ServiceEnter, ServiceLook, ServiceNothing, ServiceBook,
       ServiceRead, ServiceProcess, hwVars, runVars
  <2>2. cpc' \in {cpc, "time", "send", "end"}
    BY <1>3 DEF Service, ServiceEnter, ServiceLook, ServiceNothing, ServiceBook,
       ServiceRead, ServiceProcess, Resume, cmdVars
  <2> QED
    BY <2>1, <2>2 DEF LiveInv
<1>4. CASE StreamOff \/ OnRefused \/ Sigproc \/ Clear
  BY <1>4 DEF StreamOff, OnRefused, Sigproc, Clear, LiveInv, hwVars, runVars, cmdVars
<1>5. CASE StreamOn
  BY <1>5 DEF StreamOn, LiveInv
<1>6. CASE Off
  BY <1>6 DEF Off, OffTrigger, OffRun, OffMode, OffDma, LiveInv, hwVars, runVars,
     TypeInv, TypeOK, TypeCommand
<1>7. CASE Grab
  BY <1>7 DEF Grab, GrabBegin, Freeze, Ask, Check, InTime, TimedOut, Send, GrabEnd,
     LiveInv, hwVars, runVars
<1>8. CASE UNCHANGED vars
  BY <1>8 DEF vars, LiveInv, hwVars, runVars, cmdVars
<1> QED
  BY <1>1, <1>2, <1>3, <1>4, <1>5, <1>6, <1>7, <1>8 DEF Next, Hardware, Console

----------------------------------------------------------------------------
(* The count of the halves booked.                                         *)
(* Counting one further, modulo W.                                         *)
LEMMA PlusOne ==
  /\ 1 \in Half /\ 2 \in Half /\ 3 \in Half
  /\ \A n \in Half : /\ n \in Int /\ Plus(n, 1) \in Half /\ Plus(n, 2) = Plus(Plus(n, 1), 1)
                     /\ Plus(n, 1) = IF n + 1 = W THEN 0 ELSE n + 1
                     /\ Plus(n, 0) = n /\ Minus(n, n) = 0
<1>1. W \in Nat /\ W >= 4 /\ 1 \in Half /\ 2 \in Half /\ 3 \in Half
  BY ConstantsAssumption DEF Half
<1> SUFFICES ASSUME NEW n \in Half
             PROVE  /\ n \in Int /\ Plus(n, 1) \in Half /\ Plus(n, 2) = Plus(Plus(n, 1), 1)
                    /\ Plus(n, 1) = IF n + 1 = W THEN 0 ELSE n + 1
                    /\ Plus(n, 0) = n /\ Minus(n, n) = 0
  BY <1>1
<1>2. n \in Int /\ 0 <= n /\ n < W
  BY <1>1 DEF Half
<1>3. /\ n + 1 < W => (n + 1) % W = n + 1
      /\ n + 1 = W => (n + 1) % W = 0
      /\ n + 2 < W => (n + 2) % W = n + 2
      /\ n + 2 >= W => (n + 2) % W = n + 2 - W
      /\ (n + 0) % W = n /\ (n - n) % W = 0
  BY <1>1, <1>2
<1>4. Plus(n, 1) = IF n + 1 = W THEN 0 ELSE n + 1
  BY <1>1, <1>2, <1>3 DEF Plus
<1>5. Plus(n, 1) \in Half /\ n \in Int
  BY <1>1, <1>2, <1>4 DEF Half
<1>6. Plus(n, 2) = Plus(Plus(n, 1), 1)
  <2>1. Plus(n, 2) = IF n + 2 < W THEN n + 2 ELSE n + 2 - W
    BY <1>1, <1>2, <1>3 DEF Plus
  <2>2. CASE n + 1 = W
    <3>1. (0 + 1) % W = 1
      BY <1>1
    <3>2. Plus(Plus(n, 1), 1) = 1
      BY <1>4, <2>2, <3>1 DEF Plus
    <3> QED
      BY <1>1, <1>2, <2>1, <2>2, <3>2
  <2>3. CASE n + 1 # W
    <3>1. n + 1 < W /\ Plus(n, 1) = n + 1 /\ (n + 1) + 1 = n + 2
      BY <1>1, <1>2, <1>4, <2>3
    <3> QED
      BY <3>1 DEF Plus
  <2> QED
    BY <2>2, <2>3
<1> QED
  BY <1>2, <1>3, <1>4, <1>5, <1>6 DEF Plus, Minus

(* Two numbers with the same successor are the same.                       *)
LEMMA PlusInjective ==
  ASSUME NEW m \in Half, NEW n \in Half, Plus(m, 1) = Plus(n, 1) PROVE m = n
<1>1. /\ W \in Int /\ m \in Int /\ n \in Int /\ 0 <= m /\ 0 <= n /\ m < W /\ n < W
  BY ConstantsAssumption DEF Half
<1>2. (IF m + 1 = W THEN 0 ELSE m + 1) = (IF n + 1 = W THEN 0 ELSE n + 1)
  BY PlusOne
<1> QED
  BY <1>1, <1>2

(* One half more since n.                                                  *)
LEMMA OneMore ==
  ASSUME NEW b \in Half, NEW n \in Half, Minus(b, n) \in {0, 1, 2}
  PROVE  Minus(Plus(b, 1), n) = Minus(b, n) + 1
<1>1. /\ W \in Int /\ W >= 4 /\ b \in Int /\ n \in Int /\ 0 <= b /\ 0 <= n /\ b < W /\ n < W
  BY ConstantsAssumption DEF Half
<1>2. Plus(b, 1) = IF b + 1 = W THEN 0 ELSE b + 1
  BY PlusOne
<1>3. /\ b >= n => (b - n) % W = b - n
      /\ b < n => (b - n) % W = b - n + W
      /\ b + 1 >= n /\ b + 1 - n < W => (b + 1 - n) % W = b + 1 - n
      /\ b + 1 < n => (b + 1 - n) % W = b + 1 - n + W
      /\ n > 0 => (0 - n) % W = W - n
      /\ n = 0 => (0 - n) % W = 0
  BY <1>1
<1>4. Minus(b, n) = (IF b >= n THEN b - n ELSE b - n + W)
  BY <1>1, <1>3 DEF Minus
<1>5. CASE b + 1 = W
  <2>1. Minus(Plus(b, 1), n) = (0 - n) % W
    BY <1>2, <1>5 DEF Minus
  <2> QED
    BY <1>1, <1>3, <1>4, <1>5, <2>1
<1>6. CASE b + 1 # W
  <2>1. Minus(Plus(b, 1), n) = (b + 1 - n) % W
    <3>1. Plus(b, 1) = b + 1
      BY <1>2, <1>6
    <3>2. Minus(Plus(b, 1), n) = (Plus(b, 1) - n) % W
      BY DEF Minus
    <3> QED
      BY <1>1, <3>1, <3>2
  <2>2. b + 1 < W
    BY <1>1, <1>6
  <2> QED
    BY <1>1, <1>3, <1>4, <2>1, <2>2
<1> QED
  BY <1>5, <1>6

(* A half completes: the hardware is one further ahead of the count.       *)
LEMMA CountHwHalf ==
  ASSUME Timely, TypeInv, CoreInv, CountInv, HwHalf PROVE CountInv'
<1>1. /\ armed /\ irq = {} /\ stat = {} /\ stat' = {chan} /\ chan \in {0, 1} /\ chan' = 1 - chan
      /\ UNCHANGED <<armed, dst, pairVars, cpc, asked, blocks_done>>
      /\ hwseq' = Plus(hwseq, 1) /\ blocks_done \in Half
      /\ stamp' = [stamp EXCEPT ![dst[1 - chan]] = hwseq'] /\ hwseq = Plus(blocks_done, 1)
  BY DEF Timely, HwHalf, CoreInv, BookingInv, TypeInv, TypeOK, TypeHw, TypeIsr, Chan, CountInv, isrVars
<1>2. hwseq' = Plus(blocks_done, 2)
  BY <1>1, PlusOne
<1>3. ASSUME pair_moving, chan = 1 PROVE hwseq' = Plus(stamp'[pair_base + 1], 1)
  <2>1. /\ dst[1] = pair_base + 1 /\ dst[0] = Other(pair_base) /\ pair_base \in {0, 2}
        /\ stamp[dst[1]] = hwseq
    BY <1>1, <1>3 DEF CoreInv, TargetInv, ContentInv, TypeInv, TypeOK, TypeIsr
  <2>2. stamp'[pair_base + 1] = stamp[pair_base + 1]
    BY <1>1, <1>3, <2>1 DEF TypeInv, TypeOK, TypeData, Other, Slot
  <2> QED
    BY <1>1, <2>1, <2>2
<1> QED
  BY <1>1, <1>2, <1>3 DEF CountInv, pairVars

(* A half is booked: the count follows.                                    *)
LEMMA CountBooked ==
  ASSUME TypeInv, CoreInv, CountInv, DmaIsr, Booked(0 \in stat, 1 \in stat) PROVE CountInv'
<1>1. /\ armed /\ armed' /\ stat' = {} /\ UNCHANGED <<chan, hwseq, cpc, asked>>
      /\ blocks_done \in Half /\ asked \in Half /\ chan \in {0, 1}
      /\ pair_moving \in BOOLEAN /\ pair_req \in BOOLEAN
      /\ blocks_done' = Plus(blocks_done, (IF 0 \in stat THEN 1 ELSE 0) + (IF 1 \in stat THEN 1 ELSE 0))
  BY DEF DmaIsr, Booked, cmdVars, TypeInv, TypeOK, TypeIsr, TypeCommand, TypeHw, Chan
<1>2. \/ stat = {}
      \/ stat = {0} /\ chan = 1 /\ ~pair_moving
      \/ stat = {1} /\ chan = 0
  BY <1>1 DEF CoreInv, BookingInv, TargetInv
<1>3. CASE stat = {}
  <2>1. blocks_done' = blocks_done /\ UNCHANGED <<pair_moving, pair_frozen>>
    BY <1>1, <1>3, PlusOne DEF Booked
  <2> QED
    BY <1>1, <1>3, <2>1 DEF CountInv
<1>4. CASE stat # {}
  <2>1. blocks_done' = Plus(blocks_done, 1) /\ blocks_done' \in Half
    BY <1>1, <1>2, <1>4, PlusOne
  <2>2. hwseq' = Plus(blocks_done', 1)
    BY <1>1, <1>4, <2>1, PlusOne DEF CountInv
  <2>3. ASSUME cpc' \in Loop, pair_frozen' = NoSlot
        PROVE  Minus(blocks_done', asked') \in
                 IF pair_moving' THEN {1, 2} ELSE IF chan' = 0 <=> stat' = {} THEN {0, 1} ELSE {0}
    <3>1. \/ stat = {0} /\ chan = 1 /\ pair_moving' = pair_req /\ pair_frozen' = pair_frozen
          \/ stat = {1} /\ chan = 0 /\ pair_moving' = FALSE /\ ~pair_moving /\ pair_frozen' = pair_frozen
      <4>1. CASE stat = {0} /\ chan = 1
        BY <1>1, <1>2, <4>1 DEF Booked
      <4>2. CASE stat = {1} /\ chan = 0
        BY <1>1, <2>3, <4>2 DEF Booked, Turn, TypeInv, TypeOK, TypeIsr, NoSlot
      <4> QED
        BY <1>2, <1>4, <4>1, <4>2
    <3>2. /\ Minus(blocks_done, asked) \in IF stat = {0} THEN {0, 1} ELSE {0}
          /\ pair_req
      BY <1>1, <1>2, <2>3, <3>1 DEF CountInv, CoreInv, WaitInv
    <3>3. Minus(blocks_done', asked) = Minus(blocks_done, asked) + 1
      BY <1>1, <2>1, <3>2, OneMore
    <3>4. CASE stat = {0} /\ chan = 1 /\ pair_moving' = pair_req
      <4>1. pair_moving' /\ Minus(blocks_done', asked') \in {1, 2}
        BY <1>1, <3>2, <3>3, <3>4
      <4> QED
        BY <4>1
    <3>5. CASE stat = {1} /\ chan = 0 /\ pair_moving' = FALSE
      <4>1. Minus(blocks_done', asked') = 1 /\ chan' = 0 /\ stat' = {}
        BY <1>1, <3>2, <3>3, <3>5
      <4> QED
        BY <3>5, <4>1
    <3> QED
      BY <3>1, <3>4, <3>5
  <2> QED
    BY <1>1, <2>2, <2>3 DEF CountInv
<1> QED
  BY <1>3, <1>4

(* CountInv is kept by every step.                                        *)
LEMMA CountStep ==
  ASSUME Timely, TypeInv, CoreInv, CountInv, [Next]_vars PROVE CountInv'
<1>1. CASE DmaIsr
  <2>1. CASE Brake
    BY <2>1 DEF Brake, CountInv
  <2> QED
    BY <1>1, <2>1, CountBooked DEF DmaIsr
<1>2. ASSUME UNCHANGED <<armed, hwseq, blocks_done, stat, chan, stamp, pairVars, asked>>,
             cpc' \in Loop => cpc \in Loop
      PROVE  CountInv'
  BY <1>2 DEF CountInv, pairVars
<1>3. CASE HwStall \/ Overrun
  BY <1>2, <1>3 DEF HwStall, Overrun, hwVars, dataVars, isrVars, cmdVars
<1>4. ASSUME NEW x \in Ctx, Service(x) PROVE CountInv'
  <2>1. UNCHANGED <<armed, hwseq, blocks_done, stat, chan, stamp, pairVars, asked>>
    BY <1>4 DEF Service, ServiceEnter, ServiceLook, ServiceNothing, ServiceBook, ServiceRead,
       ServiceProcess, hwVars, dataVars, isrVars, cmdVars, Resume
  <2>2. cpc' \in Loop => cpc \in Loop
    BY <1>4 DEF Service, ServiceEnter, ServiceLook, ServiceNothing, ServiceBook, ServiceRead,
       ServiceProcess, cmdVars, Resume, Loop
  <2> QED
    BY <1>2, <2>1, <2>2
<1>5. CASE Sigproc \/ Clear \/ StreamOff \/ OnRefused \/ OffTrigger \/ OffRun \/ OffMode
  BY <1>2, <1>5 DEF Sigproc, Clear, StreamOff, OnRefused, OffTrigger, OffRun, OffMode,
     hwVars, dataVars, isrVars, cmdVars, Loop
<1>6. CASE OffDma
  BY <1>6 DEF OffDma, CountInv
<1>7. CASE StreamOn
  <2>1. armed' => hwseq' = Plus(blocks_done', 1)
    BY <1>7 DEF StreamOn
  <2> QED
    BY <1>7, <2>1 DEF StreamOn, CountInv, Loop
<1>8. CASE Grab
  <2>1. CASE GrabBegin \/ Check \/ InTime \/ Send
    BY <1>2, <2>1 DEF GrabBegin, Check, InTime, Send, hwVars, dataVars, isrVars, Loop
  <2>2. CASE Freeze
    BY <2>2 DEF Freeze, CountInv, hwVars, dataVars, isrVars, Loop
  <2>3. CASE Ask
    <3>1. blocks_done \in Half /\ asked' = blocks_done /\ Minus(blocks_done, blocks_done) = 0
      BY <2>3, PlusOne DEF Ask, TypeInv, TypeOK, TypeIsr
    <3>2. armed => ~pair_moving
      BY <2>3 DEF Ask, CoreInv, WaitInv, Loop
    <3> QED
      BY <2>3, <3>1, <3>2 DEF Ask, CountInv, hwVars, dataVars, isrVars
  <2>4. CASE TimedOut \/ GrabEnd
    BY <2>4 DEF TimedOut, GrabEnd, CountInv, hwVars, dataVars, isrVars, Loop
  <2> QED
    BY <1>8, <2>1, <2>2, <2>3, <2>4 DEF Grab
<1>9. CASE UNCHANGED vars
  BY <1>2, <1>9 DEF vars, hwVars, dataVars, isrVars, cmdVars
<1> QED
  BY <1>1, <1>3, <1>4, <1>5, <1>6, <1>7, <1>8, <1>9, CountHwHalf DEF Next, Hardware, Console, Off

-----------------------------------------------------------------------------
(* The whole invariant is inductive for a timely stream. *)
THEOREM Inductive == ASSUME Timely PROVE Spec => []IInv
<1>1. Init => IInv
  BY TypeInit, CoreInit DEF IInv, CoreInv, Init, LiveInv, CountInv, Loop
<1>2. IInv /\ [Next]_vars => IInv'
  BY TypeStep, CoreStep, LiveStep, CountStep DEF IInv, CoreInv
<1> QED
  BY <1>1, <1>2, PTL DEF Spec

(* While "stream grab" sends a pair, neither DMA channel is directed into  *)
(* it and it holds two halves that follow each other (capture.h:237-241),  *)
(* however far the main loop is behind.                                    *)
THEOREM PairStaysStill == ASSUME Timely PROVE Spec => []PairStill
<1>1. IInv => PairStill
  <2> SUFFICES ASSUME IInv, Sending PROVE PairStill
    BY DEF PairStill
  <2>1. /\ win = pair_frozen /\ win \in {0, 2} /\ win # pair_base /\ Whole(win)
        /\ dst[0] = pair_base /\ dst[1] = pair_base + 1 /\ pair_base \in {0, 2}
    BY DEF IInv, HeldInv, Held, TypeInv, TypeOK, TypeIsr
  <2> QED
    BY <2>1 DEF PairStill
<1> QED
  BY <1>1, Inductive, PTL

-----------------------------------------------------------------------------
(* An interrupt that may come too late.  As long as none did, the stream   *)
(* is where CoreInv says, but for the moment in which the second half has  *)
(* completed and waits with the first: the booking of the two moves        *)
(* late_service, and until then a grab's pair is still safe.               *)
Both == stat = {0, 1}

LateInv ==
  /\ TriggerInv
  /\ late_service <= MaxLate /\ (late_service = MaxLate => stat = {})
  /\ late_service = 0 => HeldInv
  /\ late_service = 0 /\ ~Both => CoreInv

(* The steps other than a booking keep a grab's pair.                      *)
LEMMA HeldKept ==
  ASSUME TypeInv, HeldInv,
         \/ Hardware \/ Console \/ UNCHANGED vars
         \/ DmaIsr /\ Brake
         \/ \E x \in Ctx : Service(x)
  PROVE  HeldInv'
<1> USE DEF HeldInv, Held, Sending, Loop
<1>1. CASE HwStall \/ Overrun \/ UNCHANGED vars \/ Sigproc \/ Clear
  BY <1>1 DEF HwStall, Overrun, vars, Sigproc, Clear, hwVars, dataVars, pairVars, cmdVars, Whole
<1>2. CASE DmaIsr /\ Brake
  BY <1>2 DEF DmaIsr, Brake, pairVars, cmdVars, Whole
<1>3. ASSUME NEW x \in Ctx, Service(x) PROVE HeldInv'
  <2>1. UNCHANGED <<dst, stamp, pairVars>>
    BY <1>3 DEF Service, ServiceEnter, ServiceLook, ServiceNothing, ServiceBook, ServiceRead,
       ServiceProcess, hwVars, dataVars
  <2>2. \/ UNCHANGED <<cpc, win>>
        \/ cpc = "wait" /\ cpc' = "time" /\ UNCHANGED win
        \/ cpc = "last" /\ cpc' = "send" /\ win' = pair_frozen
        \/ cpc = "poll" /\ cpc' \in {"end", "send"} /\ UNCHANGED win
    BY <1>3 DEF Service, ServiceEnter, ServiceLook, ServiceNothing, ServiceBook, ServiceRead,
       ServiceProcess, Resume, Ctx, cmdVars
  <2> QED
    BY <2>1, <2>2 DEF pairVars, Whole
<1>4. CASE Grab
  <2>1. UNCHANGED <<dst, stamp, pair_base, pair_moving>>
    BY <1>4 DEF Grab, GrabBegin, Freeze, Ask, Check, InTime, TimedOut, Send, GrabEnd, hwVars, dataVars,
       pairVars
  <2> QED
    BY <1>4, <2>1 DEF Grab, GrabBegin, Freeze, Ask, Check, InTime, TimedOut, Send, GrabEnd, Typed,
       pairVars, Whole
<1>5. CASE StreamOff \/ OnRefused \/ Off \/ StreamOn
  <2>1. cpc' \in {"off_trig", "off_run", "off_mode", "off_dma", "idle", "on"}
    BY <1>5 DEF StreamOff, OnRefused, Off, OffTrigger, OffRun, OffMode, OffDma, StreamOn, TypeInv,
       TypeOK, TypeCommand
  <2> QED
    BY <2>1
<1> QED
  BY <1>1, <1>2, <1>3, <1>4, <1>5, HeldHwHalf DEF Hardware, Console

(* The channels are armed only while the trigger runs, or a settling       *)
(* command is about to disarm them.                                        *)
LEMMA TriggerKept ==
  ASSUME TypeInv, TriggerInv, [Next]_vars PROVE TriggerInv'
<1> USE DEF TriggerInv
<1>1. CASE Hardware \/ UNCHANGED vars
  BY <1>1 DEF Hardware, HwHalf, HwStall, Overrun, vars, hwVars, cmdVars
<1>2. CASE DmaIsr
  BY <1>2 DEF DmaIsr, Booked, Brake, cmdVars
<1>3. ASSUME NEW x \in Ctx, Service(x) PROVE TriggerInv'
  <2>1. UNCHANGED <<trig, armed>> /\ cpc' \in {cpc, "time", "send", "end"}
    BY <1>3 DEF Service, ServiceEnter, ServiceLook, ServiceNothing, ServiceBook, ServiceRead,
       ServiceProcess, Resume, hwVars, cmdVars
  <2>2. cpc \in {"off_run", "off_mode", "off_dma"} => cpc' = cpc
    BY <1>3 DEF Service, ServiceEnter, ServiceLook, ServiceNothing, ServiceBook, ServiceRead,
       ServiceProcess, Runs, Resume, Ctx, cmdVars
  <2> QED
    BY <2>1, <2>2
<1>4. CASE Grab
  BY <1>4 DEF Grab, GrabBegin, Freeze, Ask, Check, InTime, TimedOut, Send, GrabEnd, Typed, hwVars
<1>5. CASE StreamOn
  <2>1. trig' = armed'
    BY <1>5 DEF StreamOn
  <2> QED
    BY <2>1
<1>7. CASE StreamOff \/ OnRefused \/ Sigproc \/ Clear
  BY <1>7 DEF StreamOff, OnRefused, Sigproc, Clear, Typed, hwVars, cmdVars
<1>6. CASE Off
  BY <1>6 DEF Off, OffTrigger, OffRun, OffMode, OffDma, hwVars
<1> QED
  BY <1>1, <1>2, <1>3, <1>4, <1>5, <1>6, <1>7 DEF Next, Console

(* late_service moves only when two halves are booked at once, and falls   *)
(* only when a stream starts.                                              *)
LEMMA LateMoves ==
  ASSUME TypeInv, late_service <= MaxLate, late_service = MaxLate => stat = {},
         "clear" \notin Commands, [Next]_vars
  PROVE  /\ late_service' <= MaxLate /\ (late_service' = MaxLate => stat' = {})
         /\ late_service' = 0 => StreamOn \/ late_service = 0
<1>1. /\ late_service \in Half /\ late_service \in 0 .. MaxLate /\ stat \subseteq Chan
      /\ MaxLate \in 1 .. (W - 1) /\ W \in Nat
  BY HalfInt, ConstantsAssumption DEF TypeInv, TypeOK, TypeIsr, TypeHw, Half
<1>2. CASE HwHalf
  BY <1>1, <1>2 DEF HwHalf, isrVars
<1>3. CASE DmaIsr /\ Booked(0 \in stat, 1 \in stat)
  <2>1. stat' = {} /\ late_service' = IF Both THEN Plus(late_service, 1) ELSE late_service
    <3>1. Both <=> 0 \in stat /\ 1 \in stat
      BY <1>1 DEF Both, Chan
    <3> QED
      BY <1>3, <3>1 DEF DmaIsr, Booked, Late
  <2>2. CASE Both
    <3>1. late_service < MaxLate
      BY <1>1, <2>2 DEF Both
    <3>2. late_service \in Half /\ Plus(late_service, 1) = late_service + 1
      BY <1>1, <3>1, PlusOne, ConstantsAssumption
    <3> QED
      BY <1>1, <2>1, <2>2, <3>1, <3>2
  <2> QED
    BY <1>1, <2>1, <2>2
<1>4. CASE DmaIsr /\ Brake
  BY <1>1, <1>4 DEF DmaIsr, Brake
<1>5. CASE StreamOn
  BY <1>1, <1>5 DEF StreamOn, CountersClear
<1>6. CASE HwStall \/ Overrun \/ UNCHANGED vars \/ (\E x \in Ctx : Service(x))
  BY <1>1, <1>6 DEF HwStall, Overrun, vars, Service, ServiceEnter, ServiceLook, ServiceNothing,
     ServiceBook, ServiceRead, ServiceProcess, hwVars, isrVars
<1>7. CASE StreamOff \/ OnRefused \/ Sigproc \/ Clear
  BY <1>1, <1>7 DEF StreamOff, OnRefused, Sigproc, Clear, Typed, hwVars, isrVars
<1>8. CASE Off
  BY <1>1, <1>8 DEF Off, OffTrigger, OffRun, OffMode, OffDma, hwVars, isrVars
<1>9. CASE Grab
  BY <1>1, <1>9 DEF Grab, GrabBegin, Freeze, Ask, Check, InTime, TimedOut, Send, GrabEnd, hwVars,
     isrVars
<1> QED
  BY <1>2, <1>3, <1>4, <1>5, <1>6, <1>7, <1>8, <1>9 DEF Next, Hardware, Console, DmaIsr

LEMMA LateStep ==
  ASSUME Regular, "clear" \notin Commands, TypeInv, LateInv, [Next]_vars PROVE LateInv'
<1>1. /\ late_service' <= MaxLate /\ (late_service' = MaxLate => stat' = {}) /\ TriggerInv'
      /\ late_service' = 0 => StreamOn \/ late_service = 0
  BY LateMoves, TriggerKept DEF LateInv
<1>2. CASE StreamOn
  BY <1>1, <1>2, CoreOn DEF LateInv, CoreInv
<1>3. ASSUME ~StreamOn, late_service' = 0 PROVE HeldInv' /\ (~Both' => CoreInv')
  <2>1. late_service = 0 /\ HeldInv /\ (~Both => CoreInv)
    BY <1>1, <1>3 DEF LateInv
  <2>2. CASE DmaIsr /\ Booked(0 \in stat, 1 \in stat)
    <3>1. CASE Both
      <4>1. late_service' = Plus(0, 1)
        BY <2>1, <2>2, <3>1 DEF Booked, Late, Both
      <4>2. Plus(0, 1) = 1
        BY PlusOne, HalfInt, ConstantsAssumption
      <4> QED
        BY <1>3, <4>1, <4>2
    <3>2. CASE ~Both
      BY <2>1, <2>2, <3>2, CoreBooked DEF CoreInv
    <3> QED
      BY <3>1, <3>2
  <2>3. CASE HwHalf
    <3>1. HeldInv'
      BY <2>1, <2>3, HeldHwHalf
    <3>2. CASE stat = {}
      BY <2>1, <2>3, <3>1, <3>2, CoreHwHalf DEF Both
    <3>3. CASE stat # {}
      <4>1. Both'
        <5>1. CoreInv \/ Both
          BY <2>1
        <5>2. armed /\ stat' = stat \cup {chan}
          BY <2>3 DEF HwHalf
        <5>3. CASE stat = {0} /\ chan = 1
          BY <5>2, <5>3 DEF Both
        <5>4. CASE stat = {1} /\ chan = 0
          BY <5>2, <5>4 DEF Both
        <5>5. CASE Both
          <6>1. chan \in {0, 1}
            BY DEF TypeInv, TypeOK, TypeHw, Chan
          <6> QED
            BY <5>2, <5>5, <6>1 DEF Both
        <5> QED
          BY <3>3, <5>1, <5>2, <5>3, <5>4, <5>5 DEF CoreInv, BookingInv
      <4> QED
        BY <3>1, <4>1
    <3> QED
      BY <3>2, <3>3
  <2>4. CASE HwStall \/ Overrun \/ Console \/ (DmaIsr /\ Brake) \/ (\E x \in Ctx : Service(x))
             \/ UNCHANGED vars
    <3>1. HeldInv'
      BY <2>1, <2>4, HeldKept DEF Hardware
    <3>2. CASE Both
      <4>1. Both' \/ ~armed'
        BY <1>3, <2>4, <3>2 DEF HwStall, Overrun, Console, StreamOff, OnRefused, Sigproc, Clear, Off,
           OffTrigger, OffRun, OffMode, OffDma, Grab, GrabBegin, Freeze, Ask, Check, InTime, TimedOut,
           Send, GrabEnd, DmaIsr, Brake, Service, ServiceEnter, ServiceLook, ServiceNothing,
           ServiceBook, ServiceRead, ServiceProcess, vars, hwVars, Both
      <4> QED
        BY <1>1, <3>1, <4>1 DEF CoreInv, BookingInv, TargetInv, ContentInv, WaitInv
    <3>3. CASE ~Both
      <4>1. CoreInv
        BY <2>1, <3>3
      <4>2. CoreInv'
        BY <1>3, <2>4, <4>1, CoreHwStall, CoreOverrun, CoreBrake, CoreService, CoreOff, CoreSettings,
           CoreGrab, CoreSame DEF Console, vars, hwVars, dataVars, cmdVars, pairView
      <4> QED
        BY <3>1, <4>2
    <3> QED
      BY <3>2, <3>3
  <2> QED
    BY <2>2, <2>3, <2>4 DEF Next, Hardware, DmaIsr
<1> QED
  BY <1>1, <1>2, <1>3 DEF LateInv

(* An interrupt that comes too late does not spoil a pair in silence: when *)
(* the pair a grab sends is not two halves that follow each other, the     *)
(* stream's late_service has moved (capture.c:496-505).  It holds whatever *)
(* the interrupt and the main loop do, as long as halves keep their        *)
(* nominal time and "clear" does not reset the count meanwhile.            *)
THEOREM LateIsTold ==
  ASSUME Regular, "clear" \notin Commands PROVE Spec => []LateOrWhole
<1>1. Init => TypeInv /\ LateInv
  <2>1. Init => late_service = 0 /\ stat = {}
    BY DEF Init
  <2> QED
    BY <2>1, TypeInit, CoreInit, ConstantsAssumption DEF LateInv, CoreInv
<1>2. TypeInv /\ LateInv /\ [Next]_vars => TypeInv' /\ LateInv'
  BY TypeStep, LateStep
<1>3. TypeInv /\ LateInv => LateOrWhole
  BY DEF LateInv, HeldInv, Held, LateOrWhole
<1> QED
  BY <1>1, <1>2, <1>3, PTL DEF Spec

(* A grab of a stream that runs never gives up waiting for its pair: at    *)
(* most three halves complete before the move, and the limit is four       *)
(* (acquisition.c:581-583).                                                *)
THEOREM RunningNotRefused == ASSUME Timely PROVE Spec => NoFalseTimeout
<1>1. ASSUME IInv, [Next]_vars, cpc = "time", cpc' = "idle"
      PROVE  ~ChainActive \/ pair_frozen # NoSlot
  <2>1. CASE TimedOut
    <3> SUFFICES ASSUME ChainActive, pair_frozen = NoSlot PROVE FALSE
      OBVIOUS
    <3>1. armed /\ cpc \in Loop
      BY <1>1 DEF ChainActive, IInv, LiveInv, Loop
    <3>2. elapsed < WaitHalves
      BY <1>1, <3>1, NotRefused DEF IInv, CoreInv, Timely
    <3>3. elapsed >= WaitHalves /\ elapsed \in Int /\ WaitHalves \in Int
      BY <1>1, <2>1, ConstantsAssumption DEF TimedOut, IInv, TypeInv, TypeOK, TypeCommand
    <3> QED
      BY <3>2, <3>3
  <2>2. CASE Hardware \/ DmaIsr \/ UNCHANGED vars
    BY <1>1, <2>2 DEF Hardware, HwHalf, HwStall, Overrun, DmaIsr, vars, cmdVars
  <2>3. ASSUME NEW x \in Ctx, Service(x) PROVE FALSE
    BY <1>1, <2>3 DEF Service, ServiceEnter, ServiceLook, ServiceNothing, ServiceBook,
       ServiceRead, ServiceProcess, Resume, Runs, Ctx, cmdVars
  <2>4. CASE Console
    BY <1>1, <2>1, <2>4 DEF Console, StreamOff, StreamOn, OnRefused, Sigproc, Clear,
       Typed, Off, OffTrigger, OffRun, OffMode, OffDma, Grab, GrabBegin, Freeze, Ask,
       Check, InTime, Send, GrabEnd
  <2> QED
    BY <1>1, <2>2, <2>3, <2>4 DEF Next
<1>2. IInv /\ [Next]_vars =>
        [cpc = "time" /\ cpc' = "idle" => ~ChainActive \/ pair_frozen # NoSlot]_vars
  BY <1>1
<1> QED
  BY <1>2, Inductive, PTL DEF Spec, NoFalseTimeout

----------------------------------------------------------------------------
(* What SnapshotStream sees of the grab.                                   *)
Phase    == IF Holding THEN "held" ELSE IF Asking \/ Sending THEN "asked" ELSE "idle"
PairHeld == IF Holding THEN <<stamp[pair_frozen], stamp[pair_frozen + 1]>> ELSE <<>>
SentOut  == [i \in 1 .. Len(frame) |-> frame[i].num]
seen     == <<blocks_done, Phase, asked, PairHeld, SentOut>>

LetsGo == /\ Phase # "idle" /\ Phase' = "idle" /\ asked' = 0
          /\ PairHeld' = <<>> /\ SentOut' = <<>> /\ UNCHANGED blocks_done
Asks   == /\ Phase = "idle" /\ Phase' = "asked" /\ asked' = blocks_done
          /\ UNCHANGED <<blocks_done, PairHeld, SentOut>>
Books  == blocks_done' = Plus(blocks_done, 1) /\ UNCHANGED <<Phase, asked, PairHeld, SentOut>>
Takes  == /\ Phase = "asked" /\ Phase' = "held" /\ blocks_done' = Plus(blocks_done, 1)
          /\ Minus(blocks_done', asked) \in {2, 3} /\ PairHeld' = <<blocks_done, blocks_done'>>
          /\ UNCHANGED <<asked, SentOut>>
HandsOut == /\ Phase = "held" /\ Len(SentOut) < 2
            /\ SentOut' = Append(SentOut, PairHeld[Len(SentOut) + 1])
            /\ UNCHANGED <<blocks_done, Phase, asked, PairHeld>>
SnapshotMoves == UNCHANGED seen \/ LetsGo \/ Asks \/ Books \/ Takes \/ HandsOut

(* Steps that leave the grab and the count alone.                          *)
LEMMA SeenSame ==
  ASSUME UNCHANGED <<blocks_done, asked, frame, pair_frozen>>,
         Holding => UNCHANGED <<stamp[pair_frozen], stamp[pair_frozen + 1]>>,
         Asking' \/ Sending' <=> Asking \/ Sending
  PROVE  SnapshotMoves
<1>1. UNCHANGED <<Phase, PairHeld, SentOut>>
  BY DEF Phase, PairHeld, SentOut, Holding
<1> QED
  BY <1>1 DEF SnapshotMoves, seen

(* No frame, nothing handed out.                                           *)
LEMMA SeenEmpty == ASSUME frame = <<>> PROVE SentOut = <<>>
<1>1. Len(<<>>) = 0 /\ 1 .. 0 = {}
  OBVIOUS
<1>2. SentOut = [i \in {} |-> frame[i].num]
  BY <1>1 DEF SentOut
<1> QED
  BY <1>2

(* The half that starts is not in the pair a grab holds.                   *)
LEMMA SeenHwHalf ==
  ASSUME Timely, IInv, HwHalf PROVE SnapshotMoves
<1>1. /\ armed /\ chan \in {0, 1}
      /\ UNCHANGED <<blocks_done, asked, frame, pairVars, cpc>>
      /\ stamp' = [stamp EXCEPT ![dst[1 - chan]] = hwseq']
  BY DEF HwHalf, IInv, TypeInv, TypeOK, TypeHw, Chan, isrVars
<1>3. dst[1 - chan] \in Slot
  BY <1>1 DEF IInv, TypeInv, TypeOK, TypeHw, Chan
<1>4. \A s \in Slot \ {dst[1 - chan]} : stamp'[s] = stamp[s]
  BY <1>1, <1>3 DEF IInv, TypeInv, TypeOK, TypeData
<1>2. ASSUME Holding PROVE UNCHANGED <<stamp[pair_frozen], stamp[pair_frozen + 1]>>
  <2>1. Held
    BY <1>2 DEF Holding, Held, Asking, Sending, Loop
  <2>2. /\ pair_frozen \in {0, 2} /\ pair_base \in {0, 2} /\ pair_frozen # pair_base
        /\ dst[0] = pair_base /\ dst[1] = pair_base + 1
    BY <2>1 DEF IInv, HeldInv, TypeInv, TypeOK, TypeIsr
  <2>3. dst[1 - chan] \in {pair_base, pair_base + 1}
    BY <1>1, <2>2
  <2>4. pair_frozen \in Slot \ {dst[1 - chan]} /\ pair_frozen + 1 \in Slot \ {dst[1 - chan]}
    BY <2>2, <2>3 DEF Slot
  <2> QED
    BY <1>1, <1>4, <2>4 DEF pairVars
<1> QED
  BY <1>1, <1>2, SeenSame DEF Asking, Sending, pairVars

(* A booking is SnapshotStream's; the one that turns the pair takes it.    *)
LEMMA SeenBooked ==
  ASSUME Timely, IInv, DmaIsr, Booked(0 \in stat, 1 \in stat) PROVE SnapshotMoves
<1>1. /\ armed /\ UNCHANGED <<cpc, asked, frame, chan>>
      /\ blocks_done \in Half /\ asked \in Half /\ chan \in {0, 1}
      /\ pair_moving \in BOOLEAN /\ pair_req \in BOOLEAN
      /\ pair_base \in {0, 2} /\ pair_frozen \in {0, 2, NoSlot}
      /\ stamp \in [Slot -> Half \cup {Torn}] /\ dst \in [Chan -> Slot]
      /\ blocks_done' = Plus(blocks_done, (IF 0 \in stat THEN 1 ELSE 0) + (IF 1 \in stat THEN 1 ELSE 0))
  BY DEF DmaIsr, Booked, cmdVars, IInv, TypeInv, TypeOK, TypeIsr, TypeCommand, TypeHw, TypeData, Chan
<1>2. \/ stat = {}
      \/ stat = {0} /\ chan = 1 /\ ~pair_moving
      \/ stat = {1} /\ chan = 0
  BY <1>1 DEF IInv, BookingInv, TargetInv
<1>3. stamp' = stamp
  <2> DEFINE next  == Other(pair_base)
             moves == 0 \in stat /\ pair_req /\ ~pair_moving
             turns == 1 \in stat /\ (pair_moving \/ moves)
             to    == [c \in Chan |-> IF c = 0 /\ moves THEN next
                                      ELSE IF c = 1 /\ turns THEN next + 1
                                      ELSE dst[c]]
             torn  == IF to[chan] = dst[chan] THEN {} ELSE {to[chan], dst[chan]}
  <2>1. stamp' = [s \in Slot |-> IF s \in torn THEN Torn ELSE stamp[s]]
    BY DEF Booked
  <2>2. chan \in Chan /\ to[chan] = dst[chan]
    BY <1>1, <1>2 DEF Chan
  <2>3. torn = {}
    BY <2>2
  <2> QED
    BY <1>1, <2>1, <2>3
<1>4. CASE stat = {}
  <2>1. blocks_done' = blocks_done /\ UNCHANGED pair_frozen
    BY <1>1, <1>4, PlusOne DEF Booked
  <2> QED
    BY <1>1, <1>3, <2>1, SeenSame DEF Asking, Sending
<1>5. CASE stat # {} /\ ~(stat = {1} /\ pair_moving)
  <2>1. blocks_done' = Plus(blocks_done, 1) /\ UNCHANGED pair_frozen
    BY <1>1, <1>2, <1>5, PlusOne DEF Booked
  <2>2. UNCHANGED <<Phase, PairHeld, SentOut>>
    BY <1>1, <1>3, <2>1 DEF Phase, PairHeld, SentOut, Holding, Asking, Sending
  <2> QED
    BY <1>1, <2>1, <2>2 DEF SnapshotMoves, Books
<1>6. CASE stat = {1} /\ pair_moving
  <2>1. blocks_done' = Plus(blocks_done, 1) /\ pair_frozen' = pair_base /\ blocks_done' \in Half
    BY <1>1, <1>6, PlusOne DEF Booked, Turn
  <2>2. chan = 0 /\ cpc \in Loop /\ pair_frozen = NoSlot
    <3>1. cpc \in Loop /\ ~Held
      BY <1>1, <1>6 DEF IInv, WaitInv, HeldInv
    <3> QED
      BY <1>2, <1>6, <3>1 DEF Held
  <2>3. Minus(blocks_done', asked) \in {2, 3}
    <3>1. Minus(blocks_done, asked) \in {1, 2}
      BY <1>1, <1>6, <2>2 DEF IInv, CountInv
    <3>2. Minus(blocks_done', asked) = Minus(blocks_done, asked) + 1
      BY <1>1, <2>1, <3>1, OneMore
    <3> QED
      BY <3>1, <3>2
  <2>4. stamp[pair_base] = blocks_done /\ stamp[pair_base + 1] = blocks_done'
    <3>1. /\ pair_base \in Slot /\ pair_base + 1 \in Slot
          /\ stamp[pair_base] # Torn /\ stamp[pair_base + 1] # Torn
          /\ stamp[pair_base + 1] = Plus(stamp[pair_base], 1)
      BY <1>1, <1>6 DEF IInv, ContentInv, Whole, Slot
    <3>2. stamp[pair_base] \in Half /\ stamp[pair_base + 1] \in Half
      BY <1>1, <3>1
    <3>3. Plus(blocks_done', 1) = Plus(stamp[pair_base + 1], 1)
      BY <1>1, <1>6, <2>1, PlusOne DEF IInv, CountInv
    <3>4. blocks_done' = stamp[pair_base + 1]
      BY <2>1, <3>2, <3>3, PlusInjective
    <3> QED
      BY <1>1, <2>1, <3>1, <3>2, <3>4, PlusInjective
  <2>5. Phase = "asked" /\ Phase' = "held"
    BY <1>1, <2>1, <2>2 DEF Phase, Holding, Asking, Sending, Loop, NoSlot
  <2>6. PairHeld' = <<blocks_done, blocks_done'>> /\ UNCHANGED SentOut
    BY <1>1, <1>3, <2>1, <2>2, <2>4 DEF PairHeld, SentOut, Holding, Asking, Sending, Loop, NoSlot
  <2> QED
    BY <1>1, <2>1, <2>3, <2>5, <2>6 DEF SnapshotMoves, Takes
<1> QED
  BY <1>4, <1>5, <1>6

(* The processing loop changes nothing the grab sees.                      *)
LEMMA SeenService ==
  ASSUME IInv, NEW x \in Ctx, Service(x) PROVE SnapshotMoves
<1>1. UNCHANGED <<blocks_done, pairVars, stamp, asked, frame>>
  BY DEF Service, ServiceEnter, ServiceLook, ServiceNothing, ServiceBook, ServiceRead,
     ServiceProcess, dataVars, isrVars, cmdVars, Resume
<1>2. Asking' \/ Sending' <=> Asking \/ Sending
  BY DEF Service, ServiceEnter, ServiceLook, ServiceNothing, ServiceBook, ServiceRead,
     ServiceProcess, Resume, cmdVars, Asking, Sending
<1> QED
  BY <1>1, <1>2, SeenSame DEF pairVars

(* The numbers of a frame with one half more.                              *)
LEMMA NumsAppended ==
  ASSUME NEW S, NEW f \in Seq([num : S, done : 0 .. 2]), NEW r \in [num : S, done : 0 .. 2]
  PROVE  /\ Len([i \in 1 .. Len(f) |-> f[i].num]) = Len(f)
         /\ [i \in 1 .. Len(Append(f, r)) |-> Append(f, r)[i].num]
              = Append([i \in 1 .. Len(f) |-> f[i].num], r.num)
<1> DEFINE n == Len(f)
           g == Append(f, r)
           a == [i \in 1 .. n |-> f[i].num]
           b == [i \in 1 .. n + 1 |-> g[i].num]
<1>1. n \in Nat /\ \A i \in 1 .. n : f[i].num \in S
  <2>1. n \in Nat
    BY LenProperties
  <2>2. ASSUME NEW i \in 1 .. n PROVE f[i].num \in S
    <3>1. f[i] \in [num : S, done : 0 .. 2]
      BY ElementOfSeq
    <3> QED
      BY <3>1
  <2> QED
    BY <2>1, <2>2
<1>2. /\ Len(g) = n + 1 /\ g[n + 1] = r
      /\ \A i \in 1 .. n : g[i] = f[i]
  BY AppendProperties
<1> HIDE DEF n, g
<1>3. a \in Seq(S) /\ Len(a) = n
  <2>1. a \in [1 .. n -> S]
    BY <1>1
  <2>2. a \in Seq(S)
    BY <1>1, <2>1, SeqDef
  <2>3. Len(a) \in Nat /\ 1 .. Len(a) = 1 .. n
    BY <2>1, <2>2, LenProperties
  <2> QED
    BY <1>1, <2>2, <2>3
<1>4. \A i \in 1 .. n + 1 : i \in 1 .. n \/ i = n + 1
  BY <1>1
<1>5. b \in Seq(S) /\ Len(b) = n + 1
  <2>1. b \in [1 .. n + 1 -> S]
    BY <1>1, <1>2, <1>4
  <2>2. b \in Seq(S)
    BY <1>1, <2>1, SeqDef
  <2>3. Len(b) \in Nat /\ 1 .. Len(b) = 1 .. n + 1
    BY <2>1, <2>2, LenProperties
  <2> QED
    BY <1>1, <2>2, <2>3
<1>6. b = Append(a, r.num)
  <2> DEFINE c == Append(a, r.num)
  <2>1. /\ c \in Seq(S) /\ Len(c) = n + 1 /\ c[n + 1] = r.num
        /\ \A i \in 1 .. n : c[i] = a[i]
    <3> HIDE DEF a
    <3>1. r.num \in S
      OBVIOUS
    <3>2. Len(a) = n
      BY <1>3
    <3> QED
      BY <1>3, <3>1, <3>2, AppendProperties
  <2> HIDE DEF c
  <2>2. \A i \in 1 .. n + 1 : b[i] = c[i]
    BY <1>2, <1>4, <2>1
  <2> HIDE DEF b
  <2>3. b = c
    BY <1>5, <2>1, <2>2, SeqEqual
  <2> QED
    BY <2>3 DEF c
<1> QED
  BY <1>2, <1>3, <1>6 DEF n, g

(* A frame of the pair is sent.                                            *)
LEMMA SeenSend ==
  ASSUME IInv, Send PROVE SnapshotMoves
<1>1. /\ cpc = "send" /\ cpc' = "poll" /\ UNCHANGED <<blocks_done, pairVars, stamp, asked>>
      /\ frame' = Append(frame, [num |-> stamp[win + Len(frame)], done |-> done[win + Len(frame)]])
  BY DEF Send, dataVars, isrVars
<1>2. Sending /\ Sending' /\ Held
  BY <1>1 DEF Sending, Held
<1>3. /\ win = pair_frozen /\ pair_frozen \in {0, 2} /\ Len(frame) < 2
      /\ frame \in Seq([num : Half \cup {Torn}, done : 0 .. 2])
  BY <1>1, <1>2 DEF IInv, HeldInv, TypeInv, TypeOK, TypeCommand, NeedInv
<1>4. Holding /\ Holding'
  BY <1>1, <1>2, <1>3 DEF Holding, NoSlot, pairVars
<1>5. UNCHANGED <<Phase, PairHeld>> /\ Phase = "held"
        /\ PairHeld = <<stamp[pair_frozen], stamp[pair_frozen + 1]>>
  BY <1>1, <1>4 DEF Phase, PairHeld, pairVars
<1>6. Len(frame) \in {0, 1}
  <2>1. Len(frame) \in Nat
    BY <1>3
  <2> QED
    BY <1>3, <2>1
<1>7. PairHeld[Len(frame) + 1] = stamp[win + Len(frame)]
  <2>1. CASE Len(frame) = 0
    BY <1>3, <1>5, <2>1
  <2>2. CASE Len(frame) = 1
    BY <1>3, <1>5, <2>2
  <2> QED
    BY <1>6, <2>1, <2>2
<1>8. /\ Len(SentOut) = Len(frame)
      /\ SentOut' = Append(SentOut, stamp[win + Len(frame)])
  <2> DEFINE r == [num |-> stamp[win + Len(frame)], done |-> done[win + Len(frame)]]
             S == Half \cup {Torn}
  <2>1. win + Len(frame) \in Slot
    BY <1>3, <1>6 DEF Slot
  <2>2. r \in [num : S, done : 0 .. 2] /\ r.num = stamp[win + Len(frame)]
    BY <2>1 DEF IInv, TypeInv, TypeOK, TypeData
  <2>3. frame' = Append(frame, r)
    BY <1>1
  <2> HIDE DEF r, S
  <2>4. frame \in Seq([num : S, done : 0 .. 2])
    BY <1>3 DEF S
  <2> QED
    BY <2>2, <2>3, <2>4, NumsAppended DEF SentOut
<1> QED
  BY <1>1, <1>3, <1>5, <1>6, <1>7, <1>8 DEF SnapshotMoves, HandsOut

(* The console's steps.                                                    *)
LEMMA SeenCommand ==
  ASSUME Timely, IInv, TypeInv', Console PROVE SnapshotMoves
<1>1. ~Sending => frame = <<>>
  BY DEF IInv, TypeInv, NeedInv
<1>2. ~Sending' => frame' = <<>>
  BY DEF TypeInv, NeedInv
<1>3. CASE StreamOff \/ OnRefused \/ Off \/ Sigproc \/ Clear \/ GrabBegin
  <2>1. UNCHANGED <<blocks_done, pair_frozen, stamp, asked, frame>>
    BY <1>3 DEF StreamOff, OnRefused, Off, OffTrigger, OffRun, OffMode, OffDma, Sigproc, Clear,
       GrabBegin, Typed, dataVars, isrVars, pairVars, cmdVars
  <2>2. ~Asking /\ ~Sending
    BY <1>3 DEF StreamOff, OnRefused, Off, OffTrigger, OffRun, OffMode, OffDma, Sigproc, Clear,
       GrabBegin, Typed, Asking, Sending
  <2>3. ~Asking' /\ ~Sending'
    <3>1. OffDma => cret \in {"idle", "on"}
      BY DEF IInv, TypeInv, TypeOK, TypeCommand
    <3> QED
      BY <1>3, <3>1 DEF StreamOff, OnRefused, Off, OffTrigger, OffRun, OffMode, OffDma, Sigproc,
         Clear, GrabBegin, Typed, Asking, Sending, cmdVars
  <2> QED
    BY <2>1, <2>2, <2>3, SeenSame DEF Holding
<1>4. CASE StreamOn
  <2>1. UNCHANGED <<blocks_done, asked, frame>> /\ cpc \in {"idle", "on"} /\ cpc' = "idle"
    BY <1>4 DEF StreamOn, Typed
  <2>2. UNCHANGED <<Phase, PairHeld, SentOut>>
    BY <2>1 DEF Phase, PairHeld, SentOut, Holding, Asking, Sending
  <2> QED
    BY <2>1, <2>2 DEF SnapshotMoves, seen
<1>5. CASE Freeze
  <2>1. UNCHANGED <<blocks_done, asked, frame>> /\ cpc = "freeze" /\ cpc' \in {"ask", "idle"}
    BY <1>5 DEF Freeze, isrVars
  <2>2. UNCHANGED <<Phase, PairHeld, SentOut>>
    BY <2>1 DEF Phase, PairHeld, SentOut, Holding, Asking, Sending
  <2> QED
    BY <2>1, <2>2 DEF SnapshotMoves, seen
<1>6. CASE Ask
  <2>1. /\ cpc = "ask" /\ cpc' = "check" /\ UNCHANGED <<blocks_done, pair_frozen, frame>>
        /\ pair_frozen = NoSlot /\ asked' = blocks_done
    BY <1>6 DEF Ask, isrVars, IInv, HeldInv
  <2>2. Phase = "idle" /\ Phase' = "asked" /\ UNCHANGED <<PairHeld, SentOut>>
    BY <2>1 DEF Phase, PairHeld, SentOut, Holding, Asking, Sending
  <2> QED
    BY <2>1, <2>2 DEF SnapshotMoves, Asks
<1>7. CASE Check \/ InTime
  <2>1. /\ UNCHANGED <<blocks_done, asked, frame, stamp, pair_frozen>>
        /\ Asking /\ Asking'
    BY <1>7 DEF Check, InTime, isrVars, dataVars, pairVars, Asking
  <2> QED
    BY <2>1, SeenSame
<1>8. CASE TimedOut \/ GrabEnd
  <2>1. UNCHANGED blocks_done /\ asked' = 0 /\ cpc \in {"time", "end"} /\ cpc' = "idle"
    BY <1>8 DEF TimedOut, GrabEnd, isrVars
  <2>2. Phase # "idle" /\ Phase' = "idle" /\ PairHeld' = <<>>
    BY <2>1 DEF Phase, PairHeld, Holding, Asking, Sending
  <2>3. frame' = <<>>
    BY <1>2, <2>1 DEF Sending
  <2>4. SentOut' = <<>>
    <3>1. Len(<<>>) = 0 /\ 1 .. 0 = {}
      OBVIOUS
    <3>2. SentOut' = [i \in {} |-> frame'[i].num]
      BY <2>3, <3>1 DEF SentOut
    <3> QED
      BY <3>2
  <2> QED
    BY <2>1, <2>2, <2>4 DEF SnapshotMoves, LetsGo
<1> QED
  BY <1>3, <1>4, <1>5, <1>6, <1>7, <1>8, SeenSend DEF Console, Grab

(* Every step of the stream is one of SnapshotStream's, or none.           *)
LEMMA SeenStep ==
  ASSUME Timely, IInv, TypeInv', [Next]_vars PROVE SnapshotMoves
<1>1. CASE HwStall \/ Overrun \/ UNCHANGED vars
  <2>1. UNCHANGED <<blocks_done, asked, frame, stamp, pair_frozen, cpc>>
    BY <1>1 DEF HwStall, Overrun, vars, hwVars, dataVars, isrVars, pairVars, cmdVars
  <2> QED
    BY <2>1, SeenSame DEF Asking, Sending
<1>2. CASE DmaIsr
  <2>1. CASE Brake
    <3>1. UNCHANGED <<blocks_done, asked, frame, stamp, pair_frozen, cpc>>
      BY <1>2, <2>1 DEF DmaIsr, Brake, pairVars, cmdVars
    <3> QED
      BY <3>1, SeenSame DEF Asking, Sending
  <2> QED
    BY <1>2, <2>1, SeenBooked DEF DmaIsr
<1> QED
  BY <1>1, <1>2, SeenHwHalf, SeenService, SeenCommand DEF Next, Hardware

(* The grab implements SnapshotStream: while the stream goes on, the taker *)
(* gets the two halves booked last, two or three bookings after it asked,  *)
(* and hands out those two and nothing else (capture.h:237-243).           *)
THEOREM GrabImplementsSnapshot == ASSUME Timely PROVE Spec => GrabIsSnapshot
<1>1. Init => Snapshot!Init
  <2> SUFFICES ASSUME Init PROVE Snapshot!Init
    OBVIOUS
  <2>1. blocks_done = 0 /\ cpc = "idle" /\ asked = 0 /\ frame = <<>>
    BY DEF Init
  <2>2. SentOut = <<>> /\ Phase = "idle" /\ PairHeld = <<>>
    BY <2>1, SeenEmpty DEF Phase, PairHeld, Holding, Asking, Sending
  <2> QED
    BY <2>1, <2>2 DEF Snapshot!Init, SentOut, Phase, PairHeld
<1>2. SnapshotMoves => [Snapshot!Next]_(Snapshot!vars)
  BY DEF SnapshotMoves, seen, LetsGo, Asks, Books, Takes, HandsOut, Phase, PairHeld, SentOut,
     Snapshot!Next, Snapshot!vars, Snapshot!Complete, Snapshot!AskFor, Snapshot!Take,
     Snapshot!HandOut, Snapshot!Release, Snapshot!Next1, Plus, Minus
<1>3. IInv /\ IInv' /\ [Next]_vars => [Snapshot!Next]_(Snapshot!vars)
  BY <1>2, SeenStep DEF IInv
<1> QED
  BY <1>1, <1>3, Inductive, PTL DEF Spec, GrabIsSnapshot, Snapshot!Spec

----------------------------------------------------------------------------
(***************************************************************************)
(* What capture_service() hands to the signal processing: that gap = 0     *)
(* means the half directly before was processed last, and that both halves *)
(* of a pair a grab sends went through the processing exactly once - for   *)
(* every counter width and every interleaving of the interrupt, the main   *)
(* loop and the commands, as long as the interrupt runs within a half      *)
(* period and a half is served before the next one completes.  (That a     *)
(* block is the half its number says needs no such promise of the main     *)
(* loop: the last section.)                                                *)
(***************************************************************************)
Served == Timely /\ TimelyService

(* One call of capture_service() between its two writes of sigproc_busy.   *)
InCall(x) == svc[x].pc \in {"book", "read", "process"}

(* At most one context is inside a call, and a command that runs has it.   *)
CallInv ==
  /\ sigproc_busy <=> \E x \in Ctx : InCall(x)
  /\ cpc # "idle" => ~InCall("main")
  /\ cpc \notin {"wait", "last", "poll"} => svc["cmd"].pc = "idle"
  /\ svc["cmd"].pc # "idle" => svc["cmd"].proc = sigproc_on

(* The half booked last is still to be handed over, or is being so.        *)
Taken == \E x \in Ctx : svc[x].pc \in {"read", "process"}
Open == seen_blocks # blocks_done \/ Taken

(* It is the one at ready_off, and nothing completes before it is done.    *)
HandInv ==
  /\ seen_blocks # blocks_done => blocks_done = Plus(seen_blocks, 1)
  /\ Taken => seen_blocks = blocks_done
  /\ \A x \in Ctx :
       /\ svc[x].pc = "book" => svc[x].num \in {seen_blocks, blocks_done}
       /\ svc[x].pc = "process" => svc[x].off = ready_off /\ svc[x].num = blocks_done
  /\ Open => stamp[ready_off] = blocks_done
  /\ armed /\ Open => /\ stat = {}
                      /\ chan = 1 => ready_off = pair_base
                      /\ chan = 0 => ready_off \in {1, 3}
  /\ armed /\ stat = {1} => /\ stamp[pair_base + 1] \in Half
                            /\ hwseq = Plus(stamp[pair_base + 1], 1)

(* What the processing remembers is the half it was given last.            *)
CarryInv == ~sp_fresh => handed = sp_last_seq

(* How often a half was processed: never while it fills or waits for its   *)
(* booking, then once if the processing is on; a grab's two halves are     *)
(* done but for the one that is at its turn.                               *)
Due(s) == Open /\ ready_off = s
Times == IF sigproc_on THEN 1 ELSE 0
DoneInv ==
  /\ armed => /\ done[dst[chan]] = 0
              /\ 0 \in stat => done[pair_base] = 0
              /\ 1 \in stat => done[pair_base + 1] = 0
  /\ armed /\ Asking /\ pair_moving =>
       done[pair_base] = IF Due(pair_base) THEN 0 ELSE Times
  /\ Held => /\ ready_off # pair_frozen
             /\ done[pair_frozen] = Times
             /\ done[pair_frozen + 1] = IF Due(pair_frozen + 1) THEN 0 ELSE Times
  /\ Sending => ~Due(win + 1)
  /\ cpc = "last" /\ svc["cmd"].pc = "book" /\ svc["cmd"].num = seen_blocks =>
       ~Due(pair_frozen + 1)

ServInv == CallInv /\ HandInv /\ CarryInv /\ DoneInv

streamView == <<armed, chan, dst, stat, hwseq, stamp, done, pair_base, pair_moving, blocks_done,
                ready_off>>

LEMMA ServInit == Init => ServInv
<1> SUFFICES ASSUME Init PROVE ServInv
  OBVIOUS
<1>1. /\ svc = [x \in Ctx |-> IdleSvc] /\ cpc = "idle" /\ ~armed /\ ~sigproc_busy /\ sp_fresh
      /\ seen_blocks = blocks_done
  BY DEF Init
<1>2. \A x \in Ctx : svc[x].pc = "idle"
  BY <1>1 DEF IdleSvc
<1>3. CallInv
  BY <1>1, <1>2 DEF CallInv, InCall, Ctx
<1>4. HandInv
  BY <1>1, <1>2 DEF HandInv, Open, Taken
<1>5. DoneInv
  BY <1>1 DEF DoneInv, Asking, Held, Sending, Loop
<1> QED
  BY <1>1, <1>3, <1>4, <1>5 DEF ServInv, CarryInv

(* Who else is in a call when one context moves on.                        *)
LEMMA Alone ==
  ASSUME CallInv, NEW x \in Ctx, Runs(x), NEW y \in Ctx, y # x PROVE ~InCall(y)
BY DEF CallInv, Runs, InCall, Ctx

(* Steps that leave the stream and the service alone.                      *)
LEMMA ServSame ==
  ASSUME ServInv, UNCHANGED <<streamView, pair_frozen, ppVars, spVars, svc, handed, cpc, win>>
  PROVE  ServInv'
<1> USE DEF ServInv, streamView, ppVars, spVars
<1>1. Open' = Open /\ Taken' = Taken
  BY DEF Open, Taken
<1>2. CallInv' /\ CarryInv'
  BY DEF CallInv, InCall, CarryInv
<1>3. HandInv'
  BY <1>1 DEF HandInv
<1>4. DoneInv'
  BY <1>1 DEF DoneInv, Due, Times, Asking, Held, Sending
<1> QED
  BY <1>2, <1>3, <1>4

(* A half completes: nothing is being handed over.                         *)
LEMMA ServHwHalf ==
  ASSUME Served, IInv, ServInv, HwHalf PROVE ServInv'
<1>1. /\ armed /\ stat = {} /\ stat' = {chan} /\ chan' = 1 - chan /\ chan \in {0, 1}
      /\ hwseq' = Plus(hwseq, 1) /\ hwseq \in Half /\ stamp[dst[chan]] = hwseq
      /\ stamp' = [stamp EXCEPT ![dst[1 - chan]] = hwseq']
      /\ done' = [done EXCEPT ![dst[1 - chan]] = 0]
      /\ UNCHANGED <<armed, dst, handed, pairVars, blocks_done, ready_off, ppVars, spVars, svc,
                     cpc, win>>
  BY DEF HwHalf, Served, Timely, IInv, BookingInv, ContentInv, TypeInv, TypeOK, TypeHw, Chan, isrVars
<1>2. ~Open /\ ~Open' /\ Taken' = Taken
  <2>1. Lag = 0 /\ ~Taken
    BY DEF HwHalf, Served, Taken
  <2>2. seen_blocks = blocks_done
    <3>1. /\ seen_blocks \in Half /\ blocks_done \in Half
      BY DEF IInv, TypeInv, TypeOK, TypeService, TypeIsr
    <3>2. CASE seen_blocks # blocks_done
      <4>1. blocks_done = Plus(seen_blocks, 1)
        BY <3>2 DEF ServInv, HandInv
      <4>2. Minus(Plus(seen_blocks, 1), seen_blocks) = 1
        BY <3>1, PlusOne, OneMore
      <4> QED
        BY <2>1, <4>1, <4>2 DEF Lag
    <3> QED
      BY <3>2
  <2> QED
    BY <1>1, <2>1, <2>2 DEF Open, Taken, ppVars
<1>3. /\ pair_base \in {0, 2} /\ dst[1] = pair_base + 1
      /\ dst[0] = IF pair_moving THEN Other(pair_base) ELSE pair_base
      /\ pair_moving => chan = 1
      /\ Other(pair_base) \in {0, 2} /\ Other(pair_base) # pair_base
      /\ stamp \in [Slot -> Half \cup {Torn}] /\ done \in [Slot -> 0 .. 2]
  BY <1>1 DEF IInv, TargetInv, TypeInv, TypeOK, TypeIsr, TypeData, Other
<1>4. dst[1 - chan] \in Slot /\ pair_base \in Slot /\ pair_base + 1 \in Slot
  BY <1>1, <1>3 DEF Slot
<1>5. CallInv' /\ CarryInv'
  BY <1>1 DEF ServInv, CallInv, InCall, CarryInv, spVars
<1>6. HandInv'
  <2>1. ASSUME chan = 1 PROVE stamp'[pair_base + 1] = hwseq
    <3>1. dst[0] # pair_base + 1
      BY <1>3
    <3> QED
      BY <1>1, <1>3, <1>4, <2>1, <3>1
  <2> QED
    BY <1>1, <1>2, <2>1 DEF ServInv, HandInv, ppVars, pairVars
<1>7. DoneInv'
  <2>1. /\ done'[dst[1 - chan]] = 0
        /\ \A s \in Slot \ {dst[1 - chan]} : done'[s] = done[s]
    BY <1>1, <1>3, <1>4
  <2>2. /\ chan = 0 => done'[pair_base] = 0
        /\ chan = 1 => done'[pair_base + 1] = 0
    <3>1. done[dst[chan]] = 0
      BY <1>1 DEF ServInv, DoneInv
    <3>2. chan = 0 => pair_base = dst[chan] /\ pair_base # dst[1 - chan]
      BY <1>3
    <3>3. chan = 1 => pair_base + 1 = dst[chan] /\ pair_base + 1 # dst[1 - chan]
      BY <1>3
    <3> QED
      BY <1>4, <2>1, <3>1, <3>2, <3>3
  <2>3. pair_moving => done'[pair_base] = done[pair_base]
    BY <1>3, <1>4, <2>1
  <2>4. Held => /\ done'[pair_frozen] = done[pair_frozen]
                /\ done'[pair_frozen + 1] = done[pair_frozen + 1]
    <3> SUFFICES ASSUME Held
                 PROVE  /\ pair_frozen \in Slot \ {dst[1 - chan]}
                        /\ pair_frozen + 1 \in Slot \ {dst[1 - chan]}
      BY <2>1
    <3>1. pair_frozen \in {0, 2} /\ pair_frozen # pair_base /\ ~pair_moving
      BY DEF IInv, HeldInv
    <3>2. dst[1 - chan] \in {pair_base, pair_base + 1}
      BY <1>1, <1>3, <3>1
    <3> QED
      BY <1>3, <3>1, <3>2 DEF Slot
  <2>5. /\ Held' = Held /\ Asking' = Asking /\ Sending' = Sending /\ Times' = Times
        /\ pair_frozen' = pair_frozen /\ pair_base' = pair_base /\ pair_moving' = pair_moving
    BY <1>1 DEF Held, Asking, Sending, Times, spVars, pairVars
  <2>6. \A s : ~Due(s) /\ ~Due(s)'
    BY <1>2 DEF Due
  <2>7. armed' => /\ done'[dst'[chan']] = 0
                  /\ 0 \in stat' => done'[pair_base'] = 0
                  /\ 1 \in stat' => done'[pair_base' + 1] = 0
    BY <1>1, <2>1, <2>2, <2>5
  <2>8. armed' /\ Asking' /\ pair_moving' => done'[pair_base'] = Times'
    BY <1>1, <2>3, <2>5, <2>6 DEF ServInv, DoneInv
  <2>9. Held' => /\ ready_off' # pair_frozen'
                 /\ done'[pair_frozen'] = Times'
                 /\ done'[pair_frozen' + 1] = Times'
    BY <1>1, <2>4, <2>5, <2>6 DEF ServInv, DoneInv
  <2> QED
    BY <2>6, <2>7, <2>8, <2>9 DEF DoneInv
<1> QED
  BY <1>5, <1>6, <1>7 DEF ServInv

(* What a booking does to the stream: at most one half is booked, nothing  *)
(* is spoilt, and ready_off is its slot.                                   *)
LEMMA BookedView ==
  ASSUME IInv, DmaIsr, Booked(0 \in stat, 1 \in stat)
  PROVE  /\ armed /\ armed' /\ stat' = {} /\ stamp' = stamp /\ done' = done
         /\ UNCHANGED <<chan, hwseq, handed, ppVars, spVars, svc, cpc, win>>
         /\ pair_base \in {0, 2} /\ dst'[chan] = dst[chan]
         /\ \/ stat = {} /\ UNCHANGED <<blocks_done, ready_off, pair_base, pair_frozen, pair_moving>>
            \/ /\ stat = {0} /\ chan = 1 /\ blocks_done' = Plus(blocks_done, 1)
               /\ ready_off' = pair_base /\ ~pair_moving
               /\ UNCHANGED <<pair_base, pair_frozen>>
            \/ /\ stat = {1} /\ chan = 0 /\ blocks_done' = Plus(blocks_done, 1)
               /\ ready_off' = pair_base + 1
               /\ ~pair_moving /\ UNCHANGED <<pair_base, pair_frozen, pair_moving>>
            \/ /\ stat = {1} /\ chan = 0 /\ blocks_done' = Plus(blocks_done, 1)
               /\ ready_off' = pair_base + 1
               /\ pair_moving /\ ~pair_moving' /\ pair_frozen' = pair_base
<1> DEFINE next == Other(pair_base)
           moves == 0 \in stat /\ pair_req /\ ~pair_moving
           turns == 1 \in stat /\ (pair_moving \/ moves)
           to    == [c \in Chan |-> IF c = 0 /\ moves THEN next
                                    ELSE IF c = 1 /\ turns THEN next + 1
                                    ELSE dst[c]]
           torn  == IF to[chan] = dst[chan] THEN {} ELSE {to[chan], dst[chan]}
<1>1. /\ armed /\ armed' /\ stat' = {}
      /\ UNCHANGED <<chan, hwseq, handed, ppVars, spVars, svc, cpc, win>>
      /\ pair_base \in {0, 2}
  BY DEF DmaIsr, Booked, cmdVars, IInv, TypeInv, TypeOK, TypeIsr
<1>2. /\ dst' = to /\ stamp' = [s \in Slot |-> IF s \in torn THEN Torn ELSE stamp[s]]
      /\ done' = [s \in Slot |-> IF s \in torn THEN 0 ELSE done[s]]
      /\ IF turns THEN Turn(next)
         ELSE /\ pair_moving' = (pair_moving \/ moves)
              /\ UNCHANGED <<pair_req, pair_frozen, pair_base>>
      /\ ready_off' = Ready(0 \in stat, 1 \in stat)
      /\ blocks_done' = Plus(blocks_done, (IF 0 \in stat THEN 1 ELSE 0) + (IF 1 \in stat THEN 1 ELSE 0))
  BY DEF Booked
<1>3. /\ chan \in Chan /\ 0 \in Chan /\ 1 \in Chan /\ dst \in [Chan -> Slot]
      /\ stamp \in [Slot -> Half \cup {Torn}] /\ done \in [Slot -> 0 .. 2]
      /\ pair_moving \in BOOLEAN /\ blocks_done \in Half
  BY DEF IInv, TypeInv, TypeOK, TypeHw, TypeData, TypeIsr, Chan
<1>4. \/ stat = {}
      \/ stat = {0} /\ chan = 1 /\ ~pair_moving
      \/ stat = {1} /\ chan = 0
  BY <1>1 DEF IInv, BookingInv, TargetInv
<1>5. to[chan] = dst[chan]
  BY <1>3, <1>4
<1>6. dst'[chan] = dst[chan] /\ stamp' = stamp /\ done' = done
  BY <1>2, <1>3, <1>5
<1> HIDE DEF torn, to
<1>7. CASE stat = {}
  BY <1>1, <1>2, <1>3, <1>6, <1>7, PlusOne DEF Ready
<1>8. CASE stat = {0} /\ chan = 1 /\ ~pair_moving
  BY <1>1, <1>2, <1>6, <1>8 DEF Ready
<1>9. CASE stat = {1} /\ chan = 0
  <2>1. blocks_done' = Plus(blocks_done, 1) /\ ready_off' = pair_base + 1
    BY <1>2, <1>9 DEF Ready
  <2>2. CASE pair_moving
    BY <1>1, <1>2, <1>6, <1>9, <2>1, <2>2 DEF Turn
  <2>3. CASE ~pair_moving
    <3>1. ~turns /\ ~moves /\ pair_moving' = (pair_moving \/ moves)
          /\ UNCHANGED <<pair_frozen, pair_base>>
      BY <1>2, <1>9, <2>3
    <3>2. pair_moving' = pair_moving
      BY <1>3, <2>3, <3>1
    <3> QED
      BY <1>1, <1>6, <1>9, <2>1, <2>3, <3>1, <3>2
  <2> QED
    BY <2>2, <2>3
<1> QED
  BY <1>4, <1>7, <1>8, <1>9

(* A half is booked: it is open, and a grab that has both halves has them  *)
(* with the second one open.                                               *)
LEMMA ServBooked ==
  ASSUME Served, IInv, ServInv, DmaIsr, Booked(0 \in stat, 1 \in stat) PROVE ServInv'
<1>1. /\ armed /\ armed' /\ stat' = {} /\ stamp' = stamp /\ done' = done
      /\ UNCHANGED <<chan, hwseq, handed, ppVars, spVars, svc, cpc, win>>
      /\ pair_base \in {0, 2} /\ dst'[chan] = dst[chan]
  BY BookedView
<1>2. CallInv' /\ CarryInv'
  BY <1>1 DEF ServInv, CallInv, InCall, CarryInv, spVars
<1>3. /\ Taken' = Taken
      /\ Held => pair_frozen \in {0, 2} /\ pair_frozen # pair_base /\ ~pair_moving
      /\ Asking' = Asking /\ Sending' = Sending /\ Times' = Times
  BY <1>1 DEF Taken, IInv, HeldInv, Asking, Sending, Times, spVars
<1>4. CASE stat = {} /\ UNCHANGED <<blocks_done, ready_off, pair_base, pair_frozen, pair_moving>>
  <2>1. Open' = Open /\ Held' = Held
    BY <1>1, <1>3, <1>4 DEF Open, ppVars, Held, Sending
  <2>2. HandInv'
    BY <1>1, <1>3, <1>4, <2>1 DEF ServInv, HandInv, ppVars
  <2>3. DoneInv'
    BY <1>1, <1>3, <1>4, <2>1 DEF ServInv, DoneInv, Due, ppVars
  <2> QED
    BY <1>2, <2>2, <2>3 DEF ServInv
<1>5. CASE stat # {} /\ blocks_done' = Plus(blocks_done, 1)
  <2>1. ~Open /\ ~Taken /\ seen_blocks = blocks_done
    BY <1>1, <1>5 DEF ServInv, HandInv, Open
  <2>2. /\ blocks_done \in Half /\ blocks_done' \in Half /\ blocks_done' # blocks_done
        /\ hwseq = Plus(blocks_done', 1)
    <3>1. blocks_done \in Half
      BY DEF IInv, TypeInv, TypeOK, TypeIsr
    <3>2. Plus(blocks_done, 1) \in Half /\ Plus(blocks_done, 1) # blocks_done
      BY <3>1, PlusOne, ConstantsAssumption
    <3>3. hwseq = Plus(blocks_done, 2)
      BY <1>1, <1>5 DEF IInv, CountInv
    <3> QED
      BY <1>5, <3>1, <3>2, <3>3, PlusOne
  <2>3. Open'
    BY <1>1, <2>1, <2>2 DEF Open, ppVars
  <2>4. ASSUME stamp[ready_off'] \in Half, hwseq = Plus(stamp[ready_off'], 1),
               chan = 1 => ready_off' = pair_base', chan = 0 => ready_off' \in {1, 3}
        PROVE  HandInv'
    <3>1. stamp'[ready_off'] = blocks_done'
      BY <1>1, <2>2, <2>4, PlusInjective
    <3> QED
      BY <1>1, <1>3, <1>5, <2>1, <2>4, <3>1 DEF ServInv, HandInv, Taken, ppVars
  <2>5. done[dst[chan]] = 0 /\ done'[dst'[chan']] = 0
    BY <1>1 DEF ServInv, DoneInv
  <2>6. CASE /\ stat = {0} /\ chan = 1 /\ ready_off' = pair_base /\ ~pair_moving
             /\ UNCHANGED <<pair_base, pair_frozen>>
    <3>1. HandInv'
      <4>1. stamp[pair_base] # Torn /\ hwseq = Plus(stamp[pair_base], 1)
        BY <1>1, <2>6 DEF IInv, ContentInv
      <4>2. stamp[pair_base] \in Half
        BY <1>1, <4>1 DEF IInv, TypeInv, TypeOK, TypeData, Slot
      <4> QED
        BY <1>1, <2>4, <2>6, <4>1, <4>2
    <3>2. Held' = Held /\ (Held => ~Due(pair_frozen + 1)' /\ ~Due(pair_frozen + 1))
      BY <1>1, <1>3, <2>1, <2>6 DEF Held, Sending, Due
    <3>3. Due(pair_base)' /\ done'[pair_base'] = 0
      BY <1>1, <2>3, <2>6 DEF Due, ServInv, DoneInv
    <3>4. Held' => /\ ready_off' # pair_frozen' /\ done'[pair_frozen'] = Times'
                   /\ done'[pair_frozen' + 1] = Times'
      BY <1>1, <1>3, <2>6, <3>2 DEF ServInv, DoneInv
    <3>5. /\ Sending => Held /\ win = pair_frozen
          /\ cpc = "last" => Held
      BY DEF IInv, HeldInv, Held
    <3>6. DoneInv'
      BY <1>1, <1>3, <2>5, <2>6, <3>2, <3>3, <3>4, <3>5 DEF DoneInv
    <3> QED
      BY <1>2, <3>1, <3>6 DEF ServInv
  <2>7. CASE /\ stat = {1} /\ chan = 0 /\ ready_off' = pair_base + 1
             /\ ~pair_moving /\ UNCHANGED <<pair_base, pair_frozen, pair_moving>>
    <3>1. HandInv'
      BY <1>1, <2>4, <2>7 DEF ServInv, HandInv
    <3>2. Held' = Held /\ (Held => ~Due(pair_frozen + 1)' /\ ~Due(pair_frozen + 1))
      BY <1>1, <1>3, <2>1, <2>7 DEF Held, Sending, Due
    <3>3. Held' => /\ ready_off' # pair_frozen' /\ done'[pair_frozen'] = Times'
                   /\ done'[pair_frozen' + 1] = Times'
      BY <1>1, <1>3, <2>7, <3>2 DEF ServInv, DoneInv
    <3>4. /\ Sending => Held /\ win = pair_frozen
          /\ cpc = "last" => Held
      BY DEF IInv, HeldInv, Held
    <3>5. DoneInv'
      BY <1>1, <1>3, <2>5, <2>7, <3>2, <3>3, <3>4 DEF DoneInv
    <3> QED
      BY <1>2, <3>1, <3>5 DEF ServInv
  <2>8. CASE /\ stat = {1} /\ chan = 0 /\ ready_off' = pair_base + 1
             /\ pair_moving /\ ~pair_moving' /\ pair_frozen' = pair_base
    <3>1. HandInv'
      BY <1>1, <2>4, <2>8 DEF ServInv, HandInv
    <3>2. ~Held /\ cpc \in Loop /\ Asking
      BY <1>1, <1>3, <2>8 DEF IInv, WaitInv, Loop, Asking
    <3>3. ~Sending' /\ cpc' # "last"
      BY <1>1, <3>2 DEF Held, Sending
    <3>4. Due(pair_frozen + 1)' /\ done'[pair_frozen' + 1] = 0
      BY <1>1, <2>3, <2>8 DEF Due, ServInv, DoneInv
    <3>5. done'[pair_frozen'] = Times' /\ ready_off' # pair_frozen'
      BY <1>1, <1>3, <2>1, <2>8, <3>2 DEF Due, ServInv, DoneInv
    <3>6. DoneInv'
      BY <1>1, <2>5, <2>8, <3>3, <3>4, <3>5 DEF DoneInv
    <3> QED
      BY <1>2, <3>1, <3>6 DEF ServInv
  <2> QED
    BY <1>5, <2>6, <2>7, <2>8, BookedView
<1> QED
  BY <1>4, <1>5, BookedView

LEMMA ServDmaIsr ==
  ASSUME Served, IInv, ServInv, DmaIsr PROVE ServInv'
<1>1. CASE Brake
  <2>1. /\ ~armed' /\ UNCHANGED <<blocks_done, ready_off, stamp, done, pairVars>>
        /\ UNCHANGED <<hwseq, handed, ppVars, spVars, svc, cpc, win>>
    BY <1>1 DEF Brake, DmaIsr, cmdVars
  <2>2. Open' = Open /\ Taken' = Taken /\ Held' = Held /\ Asking' = Asking /\ Sending' = Sending
    BY <2>1 DEF Open, Taken, Held, Asking, Sending, ppVars, pairVars
  <2>3. CallInv' /\ CarryInv'
    BY <2>1 DEF ServInv, CallInv, InCall, CarryInv, spVars
  <2>4. HandInv'
    BY <2>1, <2>2 DEF ServInv, HandInv, ppVars
  <2>5. DoneInv'
    BY <2>1, <2>2 DEF ServInv, DoneInv, Due, Times, ppVars, spVars, pairVars
  <2> QED
    BY <2>3, <2>4, <2>5 DEF ServInv
<1> QED
  BY <1>1, ServBooked DEF DmaIsr

-----------------------------------------------------------------------------
(* The calls of capture_service().                                         *)

(* The command goes on when its call returns.                              *)
LEMMA ServResume ==
  ASSUME IInv, ServInv, NEW x \in Ctx, Runs(x), Resume(x), InCall(x),
         svc' = [svc EXCEPT ![x] = IdleSvc], ~sigproc_busy', UNCHANGED <<sigproc_on, pair_frozen>>
  PROVE  /\ CallInv'
         /\ Held' => Held
         /\ Asking' => Asking
         /\ cpc' # "last"
         /\ Sending' => \/ Sending /\ win' = win
                        \/ x = "cmd" /\ cpc = "last" /\ win' = pair_frozen
<1>1. /\ svc'[x].pc = "idle" /\ \A y \in Ctx \ {x} : svc'[y] = svc[y]
      /\ \A y \in Ctx \ {x} : ~InCall(y)
  BY Alone DEF ServInv, IdleSvc, IInv, TypeInv, TypeOK, TypeService
<1>2. \A y \in Ctx : ~InCall(y)'
  BY <1>1 DEF InCall
<1>3. CallInv'
  <2>1. x = "cmd" \/ (cpc' = "idle" /\ svc'["cmd"].pc = "idle")
    BY <1>1 DEF Resume, Runs, Ctx, ServInv, CallInv
  <2>2. svc'["cmd"].pc = "idle"
    BY <1>1, <2>1
  <2> QED
    BY <1>2, <2>2 DEF CallInv, Ctx
<1>4. \/ x = "main" /\ cpc = "idle" /\ cpc' = cpc /\ win' = win
      \/ cpc = "wait" /\ cpc' = "time" /\ win' = win
      \/ x = "cmd" /\ cpc = "last" /\ cpc' = "send" /\ win' = pair_frozen
      \/ cpc = "poll" /\ cpc' \in {"end", "send"} /\ win' = win
  BY DEF Resume, Runs, Ctx
<1> QED
  BY <1>3, <1>4 DEF Held, Asking, Sending, Loop

(* Entering, and reading blocks_done: nothing open changes.                *)
LEMMA ServEnterLook ==
  ASSUME IInv, ServInv, NEW x \in Ctx, ServiceEnter(x) \/ ServiceLook(x) PROVE ServInv'
<1> DEFINE new == IF svc[x].pc = "idle" THEN "entry" ELSE "book"
<1>1. /\ svc[x].pc \in {"idle", "entry"} /\ svc'[x].pc = new
      /\ svc[x].pc = "idle" => svc'[x].proc = sigproc_on /\ sigproc_busy' = sigproc_busy
      /\ svc[x].pc = "entry" => /\ svc'[x].num = blocks_done /\ sigproc_busy'
                                /\ svc'[x].proc = svc[x].proc
      /\ \A y \in Ctx \ {x} : svc'[y] = svc[y]
      /\ Runs(x)
      /\ UNCHANGED <<streamView, pair_frozen, seen_blocks, sp_fresh, sp_last_seq, handed, sigproc_on,
                     cpc, win>>
  <2>1. svc \in [Ctx -> SvcType]
    BY DEF IInv, TypeInv, TypeOK, TypeService, SvcType
  <2>2. CASE ServiceEnter(x)
    BY <2>1, <2>2 DEF ServiceEnter, SvcType, IdleSvc, hwVars, dataVars, isrVars, pairVars,
       ppVars, spVars, cmdVars, streamView
  <2>3. CASE ServiceLook(x)
    BY <2>1, <2>3 DEF ServiceLook, SvcType, hwVars, dataVars, isrVars, pairVars,
       ppVars, spVars, cmdVars, streamView
  <2> QED
    BY <2>2, <2>3
<1>2. Taken' = Taken /\ Open' = Open
  <2>1. \A y \in Ctx : svc'[y].pc \in {"read", "process"} <=> svc[y].pc \in {"read", "process"}
    BY <1>1
  <2> QED
    BY <1>1, <2>1 DEF Taken, Open, streamView
<1>3. CallInv'
  <2>1. CASE svc[x].pc = "idle"
    <3>1. \A y \in Ctx : InCall(y)' <=> InCall(y)
      BY <1>1, <2>1 DEF InCall
    <3> QED
      BY <1>1, <2>1, <3>1 DEF ServInv, CallInv, Runs, Ctx
  <2>2. CASE svc[x].pc = "entry"
    <3>1. InCall(x)' /\ sigproc_busy' /\ \A y \in Ctx \ {x} : ~InCall(y)'
      BY <1>1, <2>2, Alone DEF InCall, ServInv
    <3> QED
      BY <1>1, <2>2, <3>1 DEF ServInv, CallInv, Runs, Ctx
  <2> QED
    BY <1>1, <2>1, <2>2
<1>4. HandInv'
  <2>1. /\ svc'[x].pc = "book" => svc'[x].num = blocks_done
        /\ svc'[x].pc # "process"
    BY <1>1
  <2>2. \A y \in Ctx : /\ svc'[y].pc = "book" => svc'[y].num \in {seen_blocks, blocks_done}
                       /\ svc'[y].pc = "process" => svc'[y].off = ready_off /\ svc'[y].num = blocks_done
    BY <1>1, <2>1 DEF ServInv, HandInv
  <2> QED
    BY <1>1, <1>2, <2>2 DEF ServInv, HandInv, streamView
<1>5. DoneInv'
  <2>1. ASSUME cpc = "last", svc'["cmd"].pc = "book", svc'["cmd"].num = seen_blocks
        PROVE  ~Due(pair_frozen + 1)'
    <3>1. CASE x = "cmd"
      <4>1. svc'["cmd"].num = blocks_done /\ svc["cmd"].pc = "entry"
        BY <1>1, <2>1, <3>1
      <4>2. ~InCall("main") /\ svc["cmd"].pc \notin {"read", "process"}
        BY <2>1, <4>1 DEF ServInv, CallInv
      <4>3. ~Open
        BY <2>1, <4>1, <4>2 DEF Open, Taken, InCall, Ctx
      <4> QED
        BY <1>2, <4>3 DEF Due
    <3>2. CASE x = "main"
      BY <1>1, <2>1, <3>2 DEF Runs
    <3> QED
      BY <3>1, <3>2 DEF Ctx
  <2> QED
    BY <1>1, <1>2, <2>1 DEF ServInv, DoneInv, Due, Times, Held, Asking, Sending, streamView
<1> QED
  BY <1>1, <1>3, <1>4, <1>5 DEF ServInv, CarryInv

(* Nothing new since the last call.                                        *)
LEMMA ServNothing ==
  ASSUME IInv, ServInv, NEW x \in Ctx, ServiceNothing(x) PROVE ServInv'
<1>1. /\ svc[x].pc = "book" /\ svc[x].num = seen_blocks /\ Runs(x) /\ Resume(x) /\ InCall(x)
      /\ svc' = [svc EXCEPT ![x] = IdleSvc] /\ ~sigproc_busy'
      /\ UNCHANGED <<streamView, pair_frozen, seen_blocks, sp_fresh, sp_last_seq, handed, sigproc_on>>
  BY DEF ServiceNothing, Behind, InCall, hwVars, dataVars, isrVars, pairVars, ppVars, streamView
<1>2. svc'[x].pc = "idle" /\ \A y \in Ctx \ {x} : svc'[y] = svc[y]
  BY <1>1 DEF IdleSvc, IInv, TypeInv, TypeOK, TypeService
<1>3. /\ CallInv'
      /\ Held' => Held
      /\ Asking' => Asking
      /\ cpc' # "last"
      /\ Sending' => \/ Sending /\ win' = win
                     \/ x = "cmd" /\ cpc = "last" /\ win' = pair_frozen
  BY <1>1, ServResume
<1>4. Taken' = Taken /\ Open' = Open
  <2>1. \A y \in Ctx : svc'[y].pc \in {"read", "process"} <=> svc[y].pc \in {"read", "process"}
    BY <1>1, <1>2
  <2> QED
    BY <1>1, <2>1 DEF Taken, Open, streamView
<1>5. HandInv'
  <2>1. \A y \in Ctx : /\ svc'[y].pc = "book" => svc'[y].num \in {seen_blocks, blocks_done}
                       /\ svc'[y].pc = "process" => svc'[y].off = ready_off /\ svc'[y].num = blocks_done
    BY <1>2 DEF ServInv, HandInv
  <2> QED
    BY <1>1, <1>4, <2>1 DEF ServInv, HandInv, streamView
<1>6. DoneInv'
  <2>1. Sending' => ~Due(win + 1)'
    BY <1>1, <1>3, <1>4 DEF ServInv, DoneInv, Due, streamView
  <2> QED
    BY <1>1, <1>3, <1>4, <2>1 DEF ServInv, DoneInv, Due, Times, streamView
<1> QED
  BY <1>1, <1>3, <1>5, <1>6 DEF ServInv, CarryInv

(* The bookmark moves on; the half stays open.                             *)
LEMMA ServBook ==
  ASSUME IInv, ServInv, NEW x \in Ctx, ServiceBook(x) PROVE ServInv'
<1>1. /\ svc[x].pc = "book" /\ svc[x].num # seen_blocks /\ Runs(x) /\ InCall(x)
      /\ seen_blocks' = svc[x].num
      /\ svc'[x].pc = "read" /\ svc'[x].proc = svc[x].proc
      /\ \A y \in Ctx \ {x} : svc'[y] = svc[y]
      /\ UNCHANGED <<streamView, pair_frozen, spVars, handed, cpc, win>>
  <2>1. svc \in [Ctx -> SvcType]
    BY DEF IInv, TypeInv, TypeOK, TypeService, SvcType
  <2> QED
    BY <2>1 DEF ServiceBook, Behind, InCall, SvcType, hwVars, dataVars, isrVars, pairVars, cmdVars,
       streamView
<1>2. /\ seen_blocks' = blocks_done /\ seen_blocks # blocks_done
      /\ \A y \in Ctx \ {x} : ~InCall(y)
  BY <1>1, Alone DEF ServInv, HandInv
<1>3. Open /\ Open' /\ blocks_done' = blocks_done
  BY <1>1, <1>2 DEF Open, Taken, streamView
<1>4. CallInv'
  <2>1. \A y \in Ctx : InCall(y)' <=> InCall(y)
    BY <1>1 DEF InCall
  <2> QED
    BY <1>1, <2>1 DEF ServInv, CallInv, spVars, Ctx
<1>5. HandInv'
  <2>1. \A y \in Ctx : svc'[y].pc \notin {"book", "process"}
    BY <1>1, <1>2 DEF InCall
  <2> QED
    BY <1>1, <1>2, <1>3, <2>1 DEF ServInv, HandInv, streamView
<1>6. DoneInv'
  <2>1. cpc = "last" => svc'["cmd"].pc # "book"
    BY <1>1 DEF Runs, Ctx
  <2> QED
    BY <1>1, <1>3, <2>1 DEF ServInv, DoneInv, Due, Times, Held, Asking, Sending, streamView, spVars
<1> QED
  BY <1>1, <1>4, <1>5, <1>6 DEF ServInv, CarryInv, spVars

(* ready_off is read.                                                      *)
LEMMA ServRead ==
  ASSUME IInv, ServInv, NEW x \in Ctx, ServiceRead(x) PROVE ServInv'
<1>1. /\ svc[x].pc = "read" /\ Runs(x) /\ InCall(x)
      /\ svc'[x].pc = "process" /\ svc'[x].proc = svc[x].proc
      /\ svc'[x].off = ready_off /\ svc'[x].num = stamp[ready_off]
      /\ \A y \in Ctx \ {x} : svc'[y] = svc[y]
      /\ UNCHANGED <<streamView, pair_frozen, seen_blocks, spVars, handed, cpc, win>>
  <2>1. svc \in [Ctx -> SvcType]
    BY DEF IInv, TypeInv, TypeOK, TypeService, SvcType
  <2> QED
    BY <2>1 DEF ServiceRead, InCall, SvcType, hwVars, dataVars, isrVars, pairVars, ppVars, cmdVars,
       streamView
<1>2. Taken /\ Taken' /\ Open /\ Open'
  BY <1>1 DEF Taken, Open
<1>3. CallInv'
  <2>1. \A y \in Ctx : InCall(y)' <=> InCall(y)
    BY <1>1 DEF InCall
  <2> QED
    BY <1>1, <2>1 DEF ServInv, CallInv, spVars, Ctx
<1>4. HandInv'
  <2>1. svc'[x].num = blocks_done
    BY <1>1, <1>2 DEF ServInv, HandInv
  <2>2. \A y \in Ctx : /\ svc'[y].pc = "book" => svc'[y].num \in {seen_blocks, blocks_done}
                       /\ svc'[y].pc = "process" => svc'[y].off = ready_off /\ svc'[y].num = blocks_done
    BY <1>1, <2>1 DEF ServInv, HandInv
  <2> QED
    BY <1>1, <1>2, <2>2 DEF ServInv, HandInv, streamView
<1>5. DoneInv'
  <2>1. cpc = "last" => svc'["cmd"].pc # "book"
    BY <1>1 DEF Runs, Ctx
  <2> QED
    BY <1>1, <1>2, <2>1 DEF ServInv, DoneInv, Due, Times, Held, Asking, Sending, streamView, spVars
<1> QED
  BY <1>1, <1>3, <1>4, <1>5 DEF ServInv, CarryInv, spVars

(* The half is processed, or passed by: it is done.                        *)
LEMMA ServProcess ==
  ASSUME Served, IInv, ServInv, NEW x \in Ctx, ServiceProcess(x) PROVE ServInv'
<1>1. /\ svc[x].pc = "process" /\ Runs(x) /\ Resume(x) /\ InCall(x) /\ Taken /\ Open
      /\ svc' = [svc EXCEPT ![x] = IdleSvc] /\ ~sigproc_busy'
      /\ IF svc[x].proc
         THEN /\ done' = [done EXCEPT ![svc[x].off] = IF done[svc[x].off] < 2
                            THEN done[svc[x].off] + 1 ELSE done[svc[x].off]]
              /\ handed' = svc[x].num /\ sp_last_seq' = seen_blocks
         ELSE UNCHANGED <<done, handed, sp_last_seq, sp_fresh>>
      /\ UNCHANGED <<armed, chan, dst, stat, hwseq, stamp, pair_base, pair_moving, blocks_done,
                     ready_off, pair_frozen, seen_blocks, sigproc_on>>
  BY DEF ServiceProcess, InCall, Taken, Open, hwVars, isrVars, pairVars, ppVars
<1>2. /\ svc'[x].pc = "idle" /\ \A y \in Ctx \ {x} : svc'[y] = svc[y] /\ ~InCall(y)
      /\ svc[x].off = ready_off /\ svc[x].num = blocks_done /\ seen_blocks = blocks_done
      /\ ready_off \in Slot /\ done \in [Slot -> 0 .. 2]
  BY <1>1, Alone DEF IdleSvc, IInv, TypeInv, TypeOK, TypeService, TypeIsr, TypeData, ServInv, HandInv
<1>3. /\ CallInv'
      /\ Held' => Held
      /\ Asking' => Asking
      /\ cpc' # "last"
      /\ Sending' => \/ Sending /\ win' = win
                     \/ x = "cmd" /\ cpc = "last" /\ win' = pair_frozen
  BY <1>1, ServResume
<1>4. ~Taken' /\ ~Open' /\ \A y \in Ctx : ~InCall(y)'
  BY <1>1, <1>2 DEF Taken, Open, InCall
<1>5. HandInv'
  BY <1>1, <1>2, <1>4 DEF ServInv, HandInv, InCall
<1>6. CarryInv'
  BY <1>1, <1>2 DEF ServInv, CarryInv
<1>7. /\ \A s \in Slot \ {ready_off} : done'[s] = done[s]
      /\ x = "cmd" /\ done[ready_off] = 0 => done'[ready_off] = Times
  <2>1. \A s \in Slot \ {ready_off} : done'[s] = done[s]
    BY <1>1, <1>2
  <2>2. ASSUME x = "cmd", done[ready_off] = 0 PROVE done'[ready_off] = Times
    <3>1. svc[x].proc = sigproc_on
      BY <1>1, <2>2 DEF ServInv, CallInv
    <3>2. CASE sigproc_on
      BY <1>1, <1>2, <2>2, <3>1, <3>2 DEF Times
    <3>3. CASE ~sigproc_on
      BY <1>1, <1>2, <2>2, <3>1, <3>3 DEF Times
    <3> QED
      BY <3>2, <3>3
  <2> QED
    BY <2>1, <2>2
<1>8. DoneInv'
  <2>1. armed => /\ stat = {} /\ dst[chan] \in Slot /\ dst[chan] # ready_off
                 /\ pair_moving => ready_off = pair_base
    <3> SUFFICES ASSUME armed
                 PROVE  /\ stat = {} /\ dst[chan] \in Slot /\ dst[chan] # ready_off
                        /\ pair_moving => ready_off = pair_base
      OBVIOUS
    <3>1. /\ stat = {} /\ chan \in {0, 1} /\ dst[chan] \in Slot
          /\ chan = 1 => ready_off = pair_base
          /\ chan = 0 => ready_off \in {1, 3}
      BY <1>1 DEF ServInv, HandInv, IInv, TypeInv, TypeOK, TypeHw, Chan
    <3>2. /\ pair_base \in {0, 2} /\ dst[1] = pair_base + 1
          /\ dst[0] = IF pair_moving THEN Other(pair_base) ELSE pair_base
          /\ pair_moving => chan = 1
          /\ Other(pair_base) \in {0, 2}
      BY <3>1 DEF IInv, TargetInv, TypeInv, TypeOK, TypeIsr, Other
    <3> QED
      BY <3>1, <3>2
  <2>2. armed' => /\ done'[dst'[chan']] = 0
                  /\ 0 \in stat' => done'[pair_base'] = 0
                  /\ 1 \in stat' => done'[pair_base' + 1] = 0
    BY <1>1, <1>7, <2>1 DEF ServInv, DoneInv
  <2>3. ASSUME armed', Asking', pair_moving' PROVE done'[pair_base'] = Times'
    <3>1. x = "cmd" /\ Asking /\ armed /\ pair_moving /\ ready_off = pair_base
      BY <1>1, <1>3, <2>1, <2>3 DEF Runs, Asking, Ctx
    <3>2. done[ready_off] = 0
      BY <1>1, <3>1 DEF ServInv, DoneInv, Due
    <3> QED
      BY <1>1, <1>7, <3>1, <3>2 DEF Times
  <2>4. ASSUME Held'
        PROVE  /\ ready_off' # pair_frozen' /\ done'[pair_frozen'] = Times'
               /\ done'[pair_frozen' + 1] = Times'
    <3>1. x = "cmd" /\ Held /\ pair_frozen \in {0, 2}
      BY <1>1, <1>3, <2>4 DEF Runs, Held, Sending, Loop, Ctx, IInv, HeldInv
    <3>2. pair_frozen \in Slot /\ pair_frozen + 1 \in Slot
      BY <3>1 DEF Slot
    <3>3. ready_off # pair_frozen /\ done[pair_frozen] = Times
      BY <3>1 DEF ServInv, DoneInv
    <3>4. CASE ready_off = pair_frozen + 1
      <4>1. done[ready_off] = 0
        BY <1>1, <3>1, <3>4 DEF ServInv, DoneInv, Due
      <4> QED
        BY <1>1, <1>7, <3>1, <3>2, <3>3, <3>4, <4>1 DEF Times
    <3>5. CASE ready_off # pair_frozen + 1
      <4>1. done[pair_frozen + 1] = Times
        BY <3>1, <3>5 DEF ServInv, DoneInv, Due
      <4> QED
        BY <1>1, <1>7, <3>1, <3>2, <3>3, <3>5, <4>1 DEF Times
    <3> QED
      BY <3>4, <3>5
  <2> QED
    BY <1>3, <1>4, <2>2, <2>3, <2>4 DEF DoneInv, Due
<1> QED
  BY <1>3, <1>5, <1>6, <1>8 DEF ServInv

LEMMA ServService ==
  ASSUME Served, IInv, ServInv, NEW x \in Ctx, Service(x) PROVE ServInv'
BY ServEnterLook, ServNothing, ServBook, ServRead, ServProcess DEF Service

-----------------------------------------------------------------------------
(* The console's steps.                                                    *)

(* A command that begins, moves on or ends between two calls: what is open *)
(* stays open, and no pair comes into its hands.                           *)
LEMMA ServMove ==
  ASSUME ServInv, UNCHANGED <<blocks_done, ready_off, stamp, done, hwseq, chan, ppVars, spVars, svc, handed>>,
         armed' => armed /\ UNCHANGED <<armed, stat, dst, pair_base, pair_moving>>,
         armed' /\ Asking' /\ pair_moving' => Asking,
         Held' => Held /\ UNCHANGED pair_frozen,
         Sending' => Sending /\ UNCHANGED win,
         svc["cmd"].pc = "idle",
         cpc' # "idle" => ~InCall("main")
  PROVE  ServInv'
<1>1. Open' = Open /\ Taken' = Taken
  BY DEF Open, Taken, ppVars
<1>2. CallInv'
  BY DEF ServInv, CallInv, InCall, spVars
<1>3. HandInv'
  BY <1>1 DEF ServInv, HandInv, ppVars
<1>4. DoneInv'
  <2>1. armed' => /\ done'[dst'[chan']] = 0
                  /\ 0 \in stat' => done'[pair_base'] = 0
                  /\ 1 \in stat' => done'[pair_base' + 1] = 0
    BY DEF ServInv, DoneInv
  <2>2. armed' /\ Asking' /\ pair_moving' =>
          done'[pair_base'] = IF Due(pair_base)' THEN 0 ELSE Times'
    BY <1>1 DEF ServInv, DoneInv, Due, Times, spVars
  <2>3. Held' => /\ ready_off' # pair_frozen' /\ done'[pair_frozen'] = Times'
                 /\ done'[pair_frozen' + 1] = IF Due(pair_frozen + 1)' THEN 0 ELSE Times'
    BY <1>1 DEF ServInv, DoneInv, Due, Times, spVars
  <2>4. Sending' => ~Due(win + 1)'
    BY <1>1 DEF ServInv, DoneInv, Due
  <2> QED
    BY <2>1, <2>2, <2>3, <2>4 DEF DoneInv
<1> QED
  BY <1>2, <1>3, <1>4 DEF ServInv, CarryInv, spVars

(* The command's own steps happen outside its calls.                       *)
LEMMA CommandOutside ==
  ASSUME ServInv
  PROVE  /\ cpc \notin {"wait", "last", "poll"} => svc["cmd"].pc = "idle"
         /\ cpc # "idle" => ~InCall("main")
         /\ ~sigproc_busy => ~InCall("main") /\ ~InCall("cmd")
BY DEF ServInv, CallInv, Ctx

LEMMA ServGrab ==
  ASSUME IInv, ServInv, Grab PROVE ServInv'
<1> USE DEF Held, Asking, Sending, Loop, hwVars, dataVars, isrVars, pairVars
<1>1. CASE GrabBegin
  BY <1>1, ServMove, CommandOutside DEF GrabBegin, Typed
<1>2. CASE Freeze
  BY <1>2, ServMove, CommandOutside DEF Freeze
<1>3. CASE Ask
  <2>1. pair_frozen = NoSlot /\ (armed => ~pair_moving)
    BY <1>3 DEF Ask, IInv, HeldInv, WaitInv
  <2> QED
    BY <1>3, <2>1, ServMove, CommandOutside DEF Ask
<1>4. CASE Check
  BY <1>4, ServMove, CommandOutside DEF Check
<1>5. CASE InTime
  BY <1>5, ServMove, CommandOutside DEF InTime
<1>6. CASE TimedOut
  BY <1>6, ServMove, CommandOutside DEF TimedOut
<1>7. CASE Send
  BY <1>7, ServMove, CommandOutside DEF Send
<1>8. CASE GrabEnd
  BY <1>8, ServMove, CommandOutside DEF GrabEnd
<1> QED
  BY <1>1, <1>2, <1>3, <1>4, <1>5, <1>6, <1>7, <1>8 DEF Grab

LEMMA ServOff ==
  ASSUME IInv, ServInv, StreamOff \/ OnRefused \/ Off PROVE ServInv'
<1> USE DEF Held, Asking, Sending, Loop, hwVars, dataVars, isrVars, pairVars
<1>1. CASE StreamOff
  BY <1>1, ServMove, CommandOutside DEF StreamOff, Typed
<1>2. CASE OnRefused
  BY <1>2, ServMove, CommandOutside DEF OnRefused
<1>3. CASE OffTrigger
  BY <1>3, ServMove, CommandOutside DEF OffTrigger
<1>4. CASE OffRun
  BY <1>4, ServMove, CommandOutside DEF OffRun
<1>5. CASE OffMode
  BY <1>5, ServMove, CommandOutside DEF OffMode
<1>6. CASE OffDma
  <2>1. cpc' \in {"idle", "on"} /\ ~armed'
    BY <1>6 DEF OffDma, IInv, TypeInv, TypeOK, TypeCommand
  <2> QED
    BY <1>6, <2>1, ServMove, CommandOutside DEF OffDma
<1> QED
  BY <1>1, <1>2, <1>3, <1>4, <1>5, <1>6 DEF Off

(* "sigproc", "clear" and "stream on" are never in the middle of a call.   *)
LEMMA ServSettings ==
  ASSUME IInv, ServInv, Sigproc \/ Clear \/ StreamOn PROVE ServInv'
<1>1. /\ svc' = svc /\ blocks_done' = blocks_done /\ cpc' = "idle" /\ sigproc_busy' = sigproc_busy
      /\ \A x \in Ctx : ~InCall(x)
      /\ svc["cmd"].pc = "idle"
  BY CommandOutside DEF Sigproc, Clear, StreamOn, Typed, isrVars, cmdVars, Ctx, InCall
<1>2. ~Taken' /\ ~Taken /\ CallInv'
  BY <1>1 DEF Taken, InCall, ServInv, CallInv
<1>3. ~Held' /\ ~Asking' /\ ~Sending' /\ cpc' # "last"
  BY <1>1 DEF Held, Asking, Sending, Loop
<1>4. CASE Sigproc
  <2>1. /\ UNCHANGED <<streamView, pair_frozen, seen_blocks, handed, sp_last_seq>>
        /\ sp_fresh' = (sp_fresh \/ ~sigproc_on)
    BY <1>4 DEF Sigproc, hwVars, dataVars, isrVars, pairVars, ppVars, streamView
  <2>2. Open' = Open
    BY <1>2, <2>1 DEF Open, streamView
  <2>3. HandInv'
    BY <1>1, <1>2, <2>1, <2>2 DEF ServInv, HandInv, streamView
  <2>4. DoneInv'
    BY <1>3, <2>1 DEF ServInv, DoneInv, streamView
  <2> QED
    BY <1>2, <2>1, <2>3, <2>4 DEF ServInv, CarryInv
<1>5. CASE Clear
  <2>1. UNCHANGED streamView /\ seen_blocks' = blocks_done /\ sp_fresh'
    BY <1>5 DEF Clear, CountersClear, hwVars, dataVars, pairVars, streamView
  <2>2. ~Open'
    BY <1>2, <2>1 DEF Open, streamView
  <2>3. HandInv'
    BY <1>1, <1>2, <2>1, <2>2 DEF ServInv, HandInv, InCall, streamView
  <2>4. DoneInv'
    BY <1>3, <2>1 DEF ServInv, DoneInv, streamView
  <2> QED
    BY <1>2, <2>1, <2>3, <2>4 DEF ServInv, CarryInv
<1>6. CASE StreamOn
  <2>1. /\ seen_blocks' = blocks_done /\ sp_fresh' /\ stat' = {} /\ chan' = 0
        /\ done' = [s \in Slot |-> 0] /\ dst' = [c \in Chan |-> c]
    BY <1>6 DEF StreamOn, CountersClear
  <2>2. ~Open'
    BY <1>1, <1>2, <2>1 DEF Open
  <2>3. HandInv'
    BY <1>1, <1>2, <2>1, <2>2 DEF HandInv, InCall
  <2>4. DoneInv'
    BY <1>3, <2>1 DEF DoneInv, Slot, Chan
  <2> QED
    BY <1>2, <2>1, <2>3, <2>4 DEF ServInv, CarryInv
<1> QED
  BY <1>4, <1>5, <1>6

LEMMA ServStep ==
  ASSUME Served, IInv, ServInv, [Next]_vars PROVE ServInv'
<1>1. CASE HwStall \/ Overrun \/ UNCHANGED vars
  BY <1>1, ServSame DEF HwStall, Overrun, vars, hwVars, dataVars, isrVars, pairVars, ppVars, spVars,
     cmdVars, streamView
<1>2. CASE Console
  BY <1>2, ServGrab, ServOff, ServSettings DEF Console
<1> QED
  BY <1>1, <1>2, ServHwHalf, ServDmaIsr, ServService DEF Next, Hardware

-----------------------------------------------------------------------------
(* The processing's invariant, for a stream whose halves are served.       *)
THEOREM ServiceSafety == ASSUME Served PROVE Spec => [](IInv /\ ServInv)
<1>1. Spec => []IInv
  BY Inductive DEF Served
<1>2. IInv /\ ServInv /\ [Next]_vars => ServInv'
  BY ServStep
<1> QED
  BY <1>1, <1>2, ServInit, PTL DEF Spec

(* gap = 0: the half processed last in this stream is the one directly     *)
(* before (sigproc.h:77-82).                                               *)
THEOREM GapIsSound == ASSUME Served PROVE Spec => []GapSound
<1>1. IInv /\ ServInv => GapSound
  BY DEF GapSound, Gap, ServInv, HandInv, CarryInv, Taken
<1> QED
  BY <1>1, ServiceSafety, PTL

(* Both halves of the pair a grab sends went through the processing        *)
(* exactly once when it is on, not at all when it is off (sigproc.h:36-46).*)
THEOREM PairIsProcessed == ASSUME Served PROVE Spec => []PairProcessed
<1>1. IInv /\ ServInv => PairProcessed
  <2> SUFFICES ASSUME IInv, ServInv, Sending, NEW s \in {win, win + 1}
               PROVE  done[s] = IF sigproc_on THEN 1 ELSE 0
    BY DEF PairProcessed
  <2>1. Held /\ win = pair_frozen
    BY DEF IInv, HeldInv, Held
  <2>2. done[pair_frozen] = Times /\ done[pair_frozen + 1] = Times
    BY <2>1 DEF ServInv, DoneInv
  <2> QED
    BY <2>1, <2>2 DEF Times
<1> QED
  BY <1>1, ServiceSafety, PTL

----------------------------------------------------------------------------
(***************************************************************************)
(* That a block is the half its number says: capture_service() reads       *)
(* blocks_done, and then ready_off, and the interrupt may book any number  *)
(* of halves between the two and before the first.  No bound on how late   *)
(* the main loop is is assumed here, but that it stays below the counters' *)
(* width (MaxLag <= W - 3).                                                *)
(***************************************************************************)

(* Counting on from n by a and then by b; two counts below the width that  *)
(* end at the same number are the same.                                    *)
LEMMA PlusPlus ==
  ASSUME NEW n \in Half, NEW a \in 0 .. (W - 1), NEW b \in 0 .. (W - 1), a + b < W
  PROVE  Plus(Plus(n, a), b) = Plus(n, a + b)
<1>1. /\ W \in Int /\ n \in Int /\ a \in Int /\ b \in Int /\ 0 <= n /\ n < W /\ 0 <= a /\ 0 <= b
  BY ConstantsAssumption DEF Half
<1>2. \A i \in Int : /\ 0 <= i /\ i < W => i % W = i
                     /\ W <= i /\ i < 2 * W => i % W = i - W
  BY <1>1, ConstantsAssumption
<1>3. Plus(n, a) = IF n + a < W THEN n + a ELSE n + a - W
  BY <1>1, <1>2 DEF Plus
<1>4. Plus(n, a + b) = IF n + (a + b) < W THEN n + (a + b) ELSE n + (a + b) - W
  BY <1>1, <1>2 DEF Plus
<1>5. CASE n + a < W
  <2>1. Plus(Plus(n, a), b) = ((n + a) + b) % W
    BY <1>3, <1>5 DEF Plus
  <2>2. (n + a) + b = n + (a + b)
    BY <1>1
  <2> QED
    BY <2>1, <2>2 DEF Plus
<1>6. CASE ~(n + a < W)
  <2>1. Plus(Plus(n, a), b) = ((n + a - W) + b) % W
    BY <1>3, <1>6 DEF Plus
  <2>2. /\ (n + a - W) + b = n + (a + b) - W /\ 0 <= (n + a - W) + b /\ (n + a - W) + b < W
        /\ ~(n + (a + b) < W) /\ (n + a - W) + b \in Int
    BY <1>1, <1>6
  <2> QED
    BY <1>2, <1>4, <2>1, <2>2
<1> QED
  BY <1>5, <1>6

LEMMA PlusCancel ==
  ASSUME NEW n \in Half, NEW a \in 0 .. (W - 1), NEW b \in 0 .. (W - 1), Plus(n, a) = Plus(n, b)
  PROVE  a = b
<1>1. /\ W \in Int /\ n \in Int /\ a \in Int /\ b \in Int /\ 0 <= n /\ n < W
      /\ 0 <= a /\ 0 <= b /\ a < W /\ b < W
  BY ConstantsAssumption DEF Half
<1>2. \A i \in Int : /\ 0 <= i /\ i < W => i % W = i
                     /\ W <= i /\ i < 2 * W => i % W = i - W
  BY <1>1, ConstantsAssumption
<1>3. /\ Plus(n, a) = IF n + a < W THEN n + a ELSE n + a - W
      /\ Plus(n, b) = IF n + b < W THEN n + b ELSE n + b - W
  BY <1>1, <1>2 DEF Plus
<1>4. (IF n + a < W THEN n + a ELSE n + a - W) = (IF n + b < W THEN n + b ELSE n + b - W)
  BY <1>3
<1> QED
  BY <1>1, <1>4

(* How far Lag, the halves booked and not yet looked at, counts.           *)
LEMMA LagCounts ==
  ASSUME NEW n \in Half, NEW l \in 0 .. (W - 1) PROVE Minus(Plus(n, l), n) = l
<1>1. /\ W \in Int /\ n \in Int /\ l \in Int /\ 0 <= n /\ n < W /\ 0 <= l /\ l < W
  BY ConstantsAssumption DEF Half
<1>2. \A i \in Int : /\ 0 <= i /\ i < W => i % W = i
                     /\ W <= i /\ i < 2 * W => i % W = i - W
                     /\ 0 - W <= i /\ i < 0 => i % W = i + W
  BY <1>1, ConstantsAssumption
<1>3. Plus(n, l) = IF n + l < W THEN n + l ELSE n + l - W
  BY <1>1, <1>2 DEF Plus
<1>4. CASE n + l < W
  <2>1. Minus(Plus(n, l), n) = (n + l - n) % W /\ n + l - n = l
    BY <1>1, <1>3, <1>4 DEF Minus
  <2> QED
    BY <1>1, <1>2, <2>1
<1>5. CASE ~(n + l < W)
  <2>1. Minus(Plus(n, l), n) = (n + l - W - n) % W /\ n + l - W - n = l - W
    BY <1>1, <1>3, <1>5 DEF Minus
  <2> QED
    BY <1>1, <1>2, <2>1
<1> QED
  BY <1>4, <1>5

Reading == \E x \in Ctx : svc[x].pc = "read"

(* The half in flight is a further than the last one booked, which is l    *)
(* further than the one capture_service() looked at last.                  *)
Spread(a, l) ==
  /\ hwseq = Plus(blocks_done, a) /\ blocks_done = Plus(seen_blocks, l)
  /\ a + l <= MaxLag + 1
  /\ armed => a = IF stat = {} THEN 1 ELSE 2
  /\ l # 0 \/ Reading => a # 0
  /\ \A x \in Ctx : svc[x].pc = "book" => \E m \in 0 .. l : svc[x].num = Plus(seen_blocks, m)

(* As long as a half is to be handed over and the one after the last       *)
(* booked is in flight, ready_off is the slot of the last booked.          *)
ReadyInv ==
  /\ (seen_blocks # blocks_done \/ Reading) /\ hwseq = Plus(blocks_done, 1)
       => stamp[ready_off] = blocks_done
  /\ armed /\ stat = {1} => /\ stamp[pair_base + 1] \in Half
                            /\ hwseq = Plus(stamp[pair_base + 1], 1)

(* SeqExact, whatever late_service says.                                   *)
SeqRight ==
  \A x \in Ctx :
    svc[x].pc = "process" /\ hwseq = Plus(seen_blocks, 1) => svc[x].num = seen_blocks

LagInv == (\E a \in 0 .. 2, l \in 0 .. MaxLag : Spread(a, l)) /\ ReadyInv /\ SeqRight

-----------------------------------------------------------------------------
(* One call at a time, whatever the timing. *)
LEMMA CallService ==
  ASSUME TypeInv, CallInv, NEW x \in Ctx, Service(x) PROVE CallInv'
<1>1. svc \in [Ctx -> SvcType] /\ Runs(x) /\ sigproc_on' = sigproc_on
  BY DEF TypeInv, TypeOK, TypeService, SvcType, Service, ServiceEnter, ServiceLook, ServiceNothing,
     ServiceBook, ServiceRead, ServiceProcess, spVars
<1>2. CASE ServiceEnter(x)
  <2>1. /\ svc[x].pc = "idle" /\ svc'[x].pc = "entry" /\ svc'[x].proc = sigproc_on
        /\ \A y \in Ctx \ {x} : svc'[y] = svc[y]
        /\ sigproc_busy' = sigproc_busy /\ cpc' = cpc
    BY <1>1, <1>2 DEF ServiceEnter, SvcType, IdleSvc, spVars, cmdVars
  <2>2. \A y \in Ctx : InCall(y)' <=> InCall(y)
    BY <2>1 DEF InCall
  <2> QED
    BY <1>1, <2>1, <2>2 DEF CallInv, Runs, Ctx
<1>3. CASE ServiceLook(x)
  <2>1. /\ svc'[x].pc = "book" /\ svc'[x].proc = svc[x].proc /\ svc[x].pc # "idle"
        /\ \A y \in Ctx \ {x} : svc'[y] = svc[y]
        /\ sigproc_busy' /\ cpc' = cpc
    BY <1>1, <1>3 DEF ServiceLook, SvcType, cmdVars
  <2>2. InCall(x)' /\ \A y \in Ctx \ {x} : ~InCall(y)'
    BY <1>1, <2>1, Alone DEF InCall
  <2> QED
    BY <1>1, <2>1, <2>2 DEF CallInv, Runs, Ctx
<1>4. CASE ServiceBook(x) \/ ServiceRead(x)
  <2>1. /\ InCall(x) /\ InCall(x)' /\ svc'[x].proc = svc[x].proc /\ svc[x].pc # "idle"
        /\ \A y \in Ctx \ {x} : svc'[y] = svc[y]
        /\ sigproc_busy' = sigproc_busy /\ cpc' = cpc
    BY <1>1, <1>4 DEF ServiceBook, ServiceRead, SvcType, InCall, spVars, cmdVars
  <2>2. \A y \in Ctx : InCall(y)' <=> InCall(y)
    BY <2>1 DEF InCall
  <2> QED
    BY <1>1, <2>1, <2>2 DEF CallInv, Runs, Ctx
<1>5. CASE ServiceNothing(x) \/ ServiceProcess(x)
  <2>1. /\ InCall(x) /\ svc' = [svc EXCEPT ![x] = IdleSvc] /\ ~sigproc_busy' /\ Resume(x)
    BY <1>5 DEF ServiceNothing, ServiceProcess, InCall
  <2>2. /\ svc'[x].pc = "idle" /\ \A y \in Ctx \ {x} : svc'[y] = svc[y]
        /\ \A y \in Ctx \ {x} : ~InCall(y)
    BY <1>1, <2>1, Alone DEF IdleSvc
  <2>3. \A y \in Ctx : ~InCall(y)'
    BY <2>2 DEF InCall
  <2>4. svc'["cmd"].pc = "idle"
    <3>1. x = "cmd" \/ cpc = "idle"
      BY <1>1 DEF Runs, Ctx
    <3> QED
      BY <2>2, <3>1 DEF CallInv, Ctx
  <2> QED
    BY <2>1, <2>3, <2>4 DEF CallInv, Ctx
<1> QED
  BY <1>2, <1>3, <1>4, <1>5 DEF Service

LEMMA CallConsole ==
  ASSUME TypeInv, CallInv, Console PROVE CallInv'
<1>1. svc' = svc /\ sigproc_busy' = sigproc_busy
  BY DEF Console, StreamOff, StreamOn, OnRefused, Sigproc, Clear, Off, OffTrigger, OffRun, OffMode,
     OffDma, Grab, GrabBegin, Freeze, Ask, Check, InTime, TimedOut, Send, GrabEnd, spVars
<1>2. CASE cpc = "idle"
  <2>1. ~sigproc_busy
    BY <1>2 DEF Console, StreamOff, StreamOn, OnRefused, Sigproc, Clear, Off, OffTrigger, OffRun,
       OffMode, OffDma, Grab, GrabBegin, Freeze, Ask, Check, InTime, TimedOut, Send, GrabEnd, Typed
  <2>2. svc["cmd"].pc = "idle" /\ \A x \in Ctx : ~InCall(x)
    BY <1>2, <2>1 DEF CallInv
  <2> QED
    BY <1>1, <2>1, <2>2 DEF CallInv, InCall, Ctx
<1>3. CASE cpc # "idle"
  <2>1. cpc \notin {"wait", "last", "poll"}
    BY <1>3 DEF Console, StreamOff, StreamOn, OnRefused, Sigproc, Clear, Off, OffTrigger, OffRun,
       OffMode, OffDma, Grab, GrabBegin, Freeze, Ask, Check, InTime, TimedOut, Send, GrabEnd, Typed
  <2>2. svc["cmd"].pc = "idle" /\ ~InCall("main")
    BY <1>3, <2>1 DEF CallInv
  <2> QED
    BY <1>1, <2>2 DEF CallInv, InCall, Ctx
<1> QED
  BY <1>2, <1>3

LEMMA CallStep ==
  ASSUME TypeInv, CallInv, [Next]_vars PROVE CallInv'
<1>1. CASE Hardware \/ DmaIsr \/ UNCHANGED vars
  <2>1. UNCHANGED <<svc, spVars, cpc>>
    BY <1>1 DEF Hardware, HwHalf, HwStall, Overrun, DmaIsr, vars, cmdVars
  <2> QED
    BY <2>1 DEF CallInv, InCall, spVars
<1> QED
  BY <1>1, CallService, CallConsole DEF Next

-----------------------------------------------------------------------------
(* How the distances move. *)

(* Steps that leave the halves and the service alone; the brake and        *)
(* "stream off" may disarm the channels.                                   *)
LEMMA LagSame ==
  ASSUME LagInv, UNCHANGED <<hwseq, blocks_done, seen_blocks, ready_off, stamp, svc>>,
         armed' => armed /\ UNCHANGED <<stat, pair_base>>
  PROVE  LagInv'
<1>1. PICK a \in 0 .. 2, l \in 0 .. MaxLag : Spread(a, l)
  BY DEF LagInv
<1>2. Spread(a, l)'
  BY <1>1 DEF Spread, Reading
<1>3. ReadyInv' /\ SeqRight'
  BY DEF LagInv, ReadyInv, Reading, SeqRight
<1> QED
  BY <1>2, <1>3 DEF LagInv

(* A half completes: the one in flight is one further.                     *)
LEMMA LagHwHalf ==
  ASSUME Timely, IInv, LagInv, HwHalf PROVE LagInv'
<1>1. /\ armed /\ stat = {} /\ stat' = {chan} /\ chan \in {0, 1}
      /\ hwseq' = Plus(hwseq, 1) /\ hwseq \in Half /\ stamp[dst[chan]] = hwseq
      /\ stamp' = [stamp EXCEPT ![dst[1 - chan]] = hwseq']
      /\ Lag + Cardinality(stat) < MaxLag
      /\ UNCHANGED <<armed, dst, pair_base, blocks_done, ready_off, seen_blocks, svc>>
  BY DEF HwHalf, Timely, IInv, BookingInv, ContentInv, TypeInv, TypeOK, TypeHw, Chan, isrVars, pairVars,
     ppVars
<1>2. PICK a \in 0 .. 2, l \in 0 .. MaxLag : Spread(a, l)
  BY DEF LagInv
<1>3. /\ seen_blocks \in Half /\ blocks_done \in Half /\ stamp \in [Slot -> Half \cup {Torn}]
      /\ W \in Int /\ MaxLag \in Int /\ MaxLag <= W - 3
  BY ConstantsAssumption DEF IInv, TypeInv, TypeOK, TypeService, TypeIsr, TypeData
<1>4. a = 1 /\ l + 1 <= MaxLag
  <2>1. Lag = l
    <3>1. l \in 0 .. (W - 1)
      BY <1>3
    <3> QED
      BY <1>2, <1>3, <3>1, LagCounts DEF Spread, Lag
  <2>2. Cardinality(stat) = 0
    BY <1>1, FS_EmptySet
  <2> QED
    BY <1>1, <1>2, <1>3, <2>1, <2>2 DEF Spread
<1>5. hwseq' = Plus(blocks_done, 2) /\ hwseq' = Plus(seen_blocks, l + 2)
  <2>1. hwseq' = Plus(blocks_done, 2)
    BY <1>1, <1>2, <1>3, <1>4, PlusOne DEF Spread
  <2>2. l \in 0 .. (W - 1) /\ 2 \in 0 .. (W - 1) /\ l + 2 < W
    BY <1>3, <1>4
  <2>3. Plus(Plus(seen_blocks, l), 2) = Plus(seen_blocks, l + 2)
    BY <1>3, <2>2, PlusPlus
  <2> QED
    BY <1>2, <2>1, <2>3 DEF Spread
<1>6. Spread(2, l)'
  <2>1. 2 + l <= MaxLag + 1 /\ stat' # {}
    BY <1>1, <1>3, <1>4
  <2> QED
    BY <1>1, <1>2, <1>5, <2>1 DEF Spread
<1>7. ReadyInv'
  <2>1. hwseq' # Plus(blocks_done, 1)
    <3>1. 1 \in 0 .. (W - 1) /\ 2 \in 0 .. (W - 1)
      BY <1>3, ConstantsAssumption
    <3> QED
      BY <1>3, <1>5, <3>1, PlusCancel
  <2>2. ASSUME chan = 1 PROVE stamp'[pair_base + 1] = hwseq
    <3>1. /\ pair_base \in {0, 2} /\ dst[1] = pair_base + 1
          /\ dst[0] = IF pair_moving THEN Other(pair_base) ELSE pair_base
      BY <1>1 DEF IInv, TargetInv, TypeInv, TypeOK, TypeIsr
    <3>2. dst[0] # pair_base + 1 /\ pair_base + 1 \in Slot
      BY <3>1 DEF Other, Slot
    <3> QED
      BY <1>1, <1>3, <2>2, <3>1, <3>2
  <2> QED
    BY <1>1, <2>1, <2>2 DEF ReadyInv
<1>8. SeqRight'
  <2>1. hwseq' # Plus(seen_blocks, 1)
    <3>1. 1 \in 0 .. (W - 1) /\ l + 2 \in 0 .. (W - 1) /\ l + 2 # 1
      BY <1>3, <1>4, ConstantsAssumption
    <3> QED
      BY <1>3, <1>5, <3>1, PlusCancel
  <2> QED
    BY <1>1, <2>1 DEF SeqRight
<1>9. 2 \in 0 .. 2
  OBVIOUS
<1> QED
  BY <1>6, <1>7, <1>8, <1>9 DEF LagInv

(* A half is booked: the one in flight is the next again, and ready_off is *)
(* the slot of the one booked.                                             *)
LEMMA LagDmaIsr ==
  ASSUME IInv, LagInv, DmaIsr PROVE LagInv'
<1>1. CASE Brake
  BY <1>1, LagSame DEF Brake, DmaIsr, ppVars
<1>2. CASE Booked(0 \in stat, 1 \in stat)
  <2>1. /\ armed /\ armed' /\ stat' = {} /\ stamp' = stamp
        /\ UNCHANGED <<chan, hwseq, seen_blocks, svc>>
    BY <1>2, BookedView DEF ppVars
  <2>2. CASE stat = {} /\ UNCHANGED <<blocks_done, ready_off, pair_base>>
    BY <2>1, <2>2, LagSame
  <2>3. CASE stat # {} /\ blocks_done' = Plus(blocks_done, 1)
    <3>1. PICK a \in 0 .. 2, l \in 0 .. MaxLag : Spread(a, l)
      BY DEF LagInv
    <3>2. /\ seen_blocks \in Half /\ blocks_done \in Half /\ stamp \in [Slot -> Half \cup {Torn}]
          /\ W \in Int /\ MaxLag \in Int /\ MaxLag <= W - 3
      BY ConstantsAssumption DEF IInv, TypeInv, TypeOK, TypeService, TypeIsr, TypeData
    <3>3. a = 2 /\ l + 1 <= MaxLag
      BY <2>1, <2>3, <3>1, <3>2 DEF Spread
    <3>4. hwseq = Plus(blocks_done', 1) /\ blocks_done' \in Half
      BY <2>3, <3>1, <3>2, <3>3, PlusOne DEF Spread
    <3>5. blocks_done' = Plus(seen_blocks, l + 1)
      <4>1. l \in 0 .. (W - 1) /\ 1 \in 0 .. (W - 1) /\ l + 1 < W
        BY <3>2, <3>3
      <4>2. Plus(Plus(seen_blocks, l), 1) = Plus(seen_blocks, l + 1)
        BY <3>2, <4>1, PlusPlus
      <4> QED
        BY <2>3, <3>1, <4>2 DEF Spread
    <3>6. Spread(1, l + 1)'
      <4>1. \A m \in 0 .. l : m \in 0 .. (l + 1)
        BY <3>2
      <4> QED
        BY <2>1, <3>1, <3>2, <3>3, <3>4, <3>5, <4>1 DEF Spread
    <3>7. ReadyInv'
      <4>1. ASSUME stamp[ready_off'] \in Half, hwseq = Plus(stamp[ready_off'], 1)
            PROVE  stamp'[ready_off'] = blocks_done'
        BY <2>1, <3>4, <4>1, PlusInjective
      <4>2. CASE stat = {0} /\ chan = 1 /\ ready_off' = pair_base
        <5>1. stamp[pair_base] # Torn /\ hwseq = Plus(stamp[pair_base], 1) /\ pair_base \in Slot
          BY <2>1, <4>2 DEF IInv, ContentInv, TypeInv, TypeOK, TypeIsr, Slot
        <5> QED
          BY <2>1, <3>2, <4>1, <4>2, <5>1 DEF ReadyInv
      <4>3. CASE stat = {1} /\ ready_off' = pair_base + 1
        BY <2>1, <4>1, <4>3 DEF LagInv, ReadyInv
      <4> QED
        BY <1>2, <2>3, <4>2, <4>3, BookedView
    <3>8. SeqRight'
      BY <2>1 DEF LagInv, SeqRight
    <3>9. 1 \in 0 .. 2 /\ l + 1 \in 0 .. MaxLag
      BY <3>2, <3>3
    <3> QED
      BY <3>6, <3>7, <3>8, <3>9 DEF LagInv
  <2> QED
    BY <1>2, <2>2, <2>3, BookedView
<1> QED
  BY <1>1, <1>2 DEF DmaIsr

(* The call's steps before the bookmark moves, and its end.                *)
LEMMA LagLook ==
  ASSUME IInv, LagInv, NEW x \in Ctx,
         ServiceEnter(x) \/ ServiceLook(x) \/ ServiceNothing(x) \/ ServiceProcess(x)
  PROVE  LagInv'
<1>1. /\ \A y \in Ctx \ {x} : svc'[y] = svc[y]
      /\ svc[x].pc # "read" /\ svc'[x].pc \in {"idle", "entry", "book"}
      /\ svc'[x].pc = "book" => svc'[x].num = blocks_done
      /\ UNCHANGED <<hwseq, blocks_done, seen_blocks, ready_off, stamp, armed, stat, pair_base>>
  <2>1. svc \in [Ctx -> SvcType]
    BY DEF IInv, TypeInv, TypeOK, TypeService, SvcType
  <2>2. CASE ServiceEnter(x)
    BY <2>1, <2>2 DEF ServiceEnter, SvcType, IdleSvc, hwVars, dataVars, isrVars, pairVars, ppVars
  <2>3. CASE ServiceLook(x)
    BY <2>1, <2>3 DEF ServiceLook, SvcType, hwVars, dataVars, isrVars, pairVars, ppVars
  <2>4. CASE ServiceNothing(x)
    BY <2>1, <2>4 DEF ServiceNothing, SvcType, IdleSvc, hwVars, dataVars, isrVars, pairVars, ppVars
  <2>5. CASE ServiceProcess(x)
    BY <2>1, <2>5 DEF ServiceProcess, SvcType, IdleSvc, hwVars, isrVars, pairVars, ppVars
  <2> QED
    BY <2>2, <2>3, <2>4, <2>5
<1>2. PICK a \in 0 .. 2, l \in 0 .. MaxLag : Spread(a, l)
  BY DEF LagInv
<1>3. Reading' = Reading
  BY <1>1 DEF Reading
<1>4. Spread(a, l)'
  <2>1. l \in 0 .. l
    BY ConstantsAssumption
  <2>2. \A y \in Ctx : svc'[y].pc = "book" => \E m \in 0 .. l : svc'[y].num = Plus(seen_blocks, m)
    BY <1>1, <1>2, <2>1 DEF Spread
  <2> QED
    BY <1>1, <1>2, <1>3, <2>2 DEF Spread
<1>5. ReadyInv' /\ SeqRight'
  BY <1>1, <1>3 DEF LagInv, ReadyInv, SeqRight
<1> QED
  BY <1>4, <1>5 DEF LagInv

(* The bookmark moves to the number read, of which the call was not told   *)
(* whether further ones were booked since.                                 *)
LEMMA LagBook ==
  ASSUME IInv, CallInv, LagInv, NEW x \in Ctx, ServiceBook(x) PROVE LagInv'
<1>1. /\ \A y \in Ctx \ {x} : svc'[y] = svc[y]
      /\ Runs(x) /\ svc[x].pc = "book" /\ svc'[x].pc = "read"
      /\ svc[x].num # seen_blocks /\ seen_blocks' = svc[x].num
      /\ UNCHANGED <<hwseq, blocks_done, ready_off, stamp, armed, stat, pair_base>>
  <2>1. svc \in [Ctx -> SvcType]
    BY DEF IInv, TypeInv, TypeOK, TypeService, SvcType
  <2> QED
    BY <2>1 DEF ServiceBook, Behind, SvcType, hwVars, dataVars, isrVars, pairVars
<1>2. PICK a \in 0 .. 2, l \in 0 .. MaxLag : Spread(a, l)
  BY DEF LagInv
<1>3. PICK m \in 0 .. l : svc[x].num = Plus(seen_blocks, m)
  BY <1>1, <1>2 DEF Spread
<1>4. /\ seen_blocks \in Half /\ blocks_done \in Half /\ seen_blocks' \in Half
      /\ W \in Int /\ MaxLag \in Int /\ MaxLag <= W - 3
  <2>1. seen_blocks \in Half /\ blocks_done \in Half
    BY DEF IInv, TypeInv, TypeOK, TypeService, TypeIsr
  <2>2. seen_blocks' \in Half
    BY <1>1, <1>3, <2>1, PlusRange, HalfInt
  <2>3. W \in Int /\ MaxLag \in Int /\ MaxLag <= W - 3
    BY ConstantsAssumption
  <2> QED
    BY <2>1, <2>2, <2>3
<1>5. /\ m \in Int /\ l \in Int /\ a \in Int /\ 0 <= m /\ m <= l /\ l <= MaxLag /\ 0 <= a
      /\ m # 0
  <2>1. Plus(seen_blocks, 0) = seen_blocks
    BY <1>4, PlusOne
  <2> QED
    BY <1>1, <1>3, <1>4, <2>1
<1>6. a # 0 /\ seen_blocks # blocks_done
  <2>1. l # 0 /\ l \in 0 .. (W - 1) /\ 0 \in 0 .. (W - 1)
    BY <1>4, <1>5
  <2>2. Plus(seen_blocks, l) # Plus(seen_blocks, 0)
    BY <1>4, <2>1, PlusCancel
  <2> QED
    BY <1>2, <1>4, <2>1, <2>2, PlusOne DEF Spread
<1>7. blocks_done = Plus(seen_blocks', l - m)
  <2>1. m \in 0 .. (W - 1) /\ l - m \in 0 .. (W - 1) /\ m + (l - m) = l /\ l < W
    BY <1>4, <1>5
  <2>2. Plus(Plus(seen_blocks, m), l - m) = Plus(seen_blocks, l)
    BY <1>4, <2>1, PlusPlus
  <2> QED
    BY <1>1, <1>2, <1>3, <2>2 DEF Spread
<1>8. \A y \in Ctx : svc'[y].pc \notin {"book", "process"}
  BY <1>1, Alone DEF InCall
<1>9. Spread(a, l - m)'
  <2>1. a + (l - m) <= MaxLag + 1
    BY <1>2, <1>4, <1>5 DEF Spread
  <2> QED
    BY <1>1, <1>2, <1>6, <1>7, <1>8, <2>1 DEF Spread
<1>10. ReadyInv' /\ SeqRight'
  BY <1>1, <1>6, <1>8 DEF LagInv, ReadyInv, SeqRight
<1>11. l - m \in 0 .. MaxLag
  BY <1>4, <1>5
<1> QED
  BY <1>9, <1>10, <1>11 DEF LagInv

(* ready_off is read: if the half after seen_blocks is in flight, nothing  *)
(* was booked since, and ready_off is the slot of seen_blocks.             *)
LEMMA LagRead ==
  ASSUME IInv, LagInv, NEW x \in Ctx, ServiceRead(x) PROVE LagInv'
<1>1. /\ \A y \in Ctx \ {x} : svc'[y] = svc[y]
      /\ svc[x].pc = "read" /\ svc'[x].pc = "process" /\ svc'[x].num = stamp[ready_off]
      /\ UNCHANGED <<hwseq, blocks_done, seen_blocks, ready_off, stamp, armed, stat, pair_base>>
  <2>1. svc \in [Ctx -> SvcType]
    BY DEF IInv, TypeInv, TypeOK, TypeService, SvcType
  <2> QED
    BY <2>1 DEF ServiceRead, SvcType, hwVars, dataVars, isrVars, pairVars, ppVars
<1>2. PICK a \in 0 .. 2, l \in 0 .. MaxLag : Spread(a, l)
  BY DEF LagInv
<1>3. Reading /\ a # 0
  BY <1>1, <1>2 DEF Reading, Spread
<1>4. Spread(a, l)'
  BY <1>1, <1>2, <1>3 DEF Spread
<1>5. ReadyInv'
  BY <1>1, <1>3 DEF LagInv, ReadyInv
<1>6. ASSUME hwseq = Plus(seen_blocks, 1) PROVE stamp[ready_off] = seen_blocks
  <2>1. /\ seen_blocks \in Half /\ blocks_done \in Half
        /\ W \in Int /\ MaxLag \in Int /\ MaxLag <= W - 3
    BY ConstantsAssumption DEF IInv, TypeInv, TypeOK, TypeService, TypeIsr
  <2>2. /\ l \in 0 .. (W - 1) /\ a \in 0 .. (W - 1) /\ l + a < W /\ l + a \in 0 .. (W - 1)
        /\ 1 \in 0 .. (W - 1)
    BY <1>2, <2>1, ConstantsAssumption DEF Spread
  <2>3. hwseq = Plus(seen_blocks, l + a)
    BY <1>2, <2>1, <2>2, PlusPlus DEF Spread
  <2>4. l + a = 1
    BY <1>6, <2>1, <2>2, <2>3, PlusCancel
  <2>5. a = 1 /\ l = 0
    BY <1>3, <2>2, <2>4
  <2>6. blocks_done = seen_blocks
    BY <1>2, <2>1, <2>5, PlusOne DEF Spread
  <2> QED
    BY <1>3, <1>6, <2>6 DEF LagInv, ReadyInv
<1>7. SeqRight'
  BY <1>1, <1>6 DEF LagInv, SeqRight
<1> QED
  BY <1>4, <1>5, <1>7 DEF LagInv

(* "clear" and "stream on" set the bookmark, never in the middle of a call. *)
LEMMA LagClear ==
  ASSUME IInv, CallInv, LagInv, Clear \/ StreamOn PROVE LagInv'
<1>1. /\ svc' = svc /\ blocks_done' = blocks_done /\ seen_blocks' = blocks_done
      /\ \A x \in Ctx : ~InCall(x)
  BY DEF Clear, StreamOn, CountersClear, Typed, CallInv, InCall, Ctx
<1>2. /\ ~Reading' /\ SeqRight' /\ \A x \in Ctx : svc'[x].pc # "book"
  BY <1>1 DEF Reading, InCall, SeqRight
<1>3. PICK a \in 0 .. 2, l \in 0 .. MaxLag : Spread(a, l)
  BY DEF LagInv
<1>4. /\ blocks_done \in Half /\ blocks_done = Plus(blocks_done, 0) /\ MaxLag \in Nat /\ MaxLag >= 1
      /\ 0 \in 0 .. MaxLag /\ 1 \in 0 .. 2
  BY PlusOne, ConstantsAssumption DEF IInv, TypeInv, TypeOK, TypeIsr
<1>5. CASE UNCHANGED <<hwseq, armed, stat, stamp, ready_off, pair_base>>
  <2>1. Spread(a, 0)'
    BY <1>1, <1>2, <1>3, <1>4, <1>5 DEF Spread
  <2>2. ReadyInv'
    BY <1>1, <1>2, <1>5 DEF LagInv, ReadyInv
  <2> QED
    BY <1>2, <1>4, <2>1, <2>2 DEF LagInv
<1>6. CASE StreamOn
  <2>1. stat' = {}
    BY <1>6 DEF StreamOn
  <2>2. ReadyInv'
    BY <1>1, <1>2, <2>1 DEF ReadyInv
  <2>3. CASE armed' /\ hwseq' = Plus(blocks_done, 1)
    <3>1. Spread(1, 0)'
      BY <1>1, <1>2, <1>4, <2>1, <2>3 DEF Spread
    <3> QED
      BY <1>2, <1>4, <2>2, <3>1 DEF LagInv
  <2>4. CASE ~armed' /\ hwseq' = hwseq
    <3>1. Spread(a, 0)'
      BY <1>1, <1>2, <1>3, <1>4, <2>4 DEF Spread
    <3> QED
      BY <1>2, <1>4, <2>2, <3>1 DEF LagInv
  <2> QED
    BY <1>6, <2>3, <2>4 DEF StreamOn
<1> QED
  BY <1>5, <1>6 DEF Clear, hwVars, dataVars, pairVars

LEMMA LagStep ==
  ASSUME Timely, IInv, CallInv, LagInv, [Next]_vars PROVE LagInv'
<1>1. CASE HwStall \/ Overrun \/ UNCHANGED vars
  BY <1>1, LagSame DEF HwStall, Overrun, vars, hwVars, dataVars, isrVars, pairVars, ppVars
<1>2. CASE StreamOff \/ OnRefused \/ Sigproc \/ Off \/ Grab
  BY <1>2, LagSame DEF StreamOff, OnRefused, Sigproc, Off, OffTrigger, OffRun, OffMode, OffDma, Grab,
     GrabBegin, Freeze, Ask, Check, InTime, TimedOut, Send, GrabEnd, hwVars, dataVars, isrVars, pairVars,
     ppVars
<1>3. CASE \E x \in Ctx : Service(x)
  BY <1>3, LagLook, LagBook, LagRead DEF Service
<1> QED
  BY <1>1, <1>2, <1>3, LagHwHalf, LagDmaIsr, LagClear DEF Next, Hardware, Console

(* The block handed to sigproc_block() is the half its info.seq says for   *)
(* as long as the half after it is still being filled - however far behind *)
(* the main loop is, and wherever in the call the interrupt books further  *)
(* halves (capture.c:932-954).                                             *)
THEOREM SeqIsExact == ASSUME Timely PROVE Spec => []SeqExact
<1>1. Init => CallInv /\ LagInv
  <2> SUFFICES ASSUME Init PROVE CallInv /\ LagInv
    OBVIOUS
  <2>1. /\ svc = [x \in Ctx |-> IdleSvc] /\ cpc = "idle" /\ ~armed /\ ~sigproc_busy
        /\ seen_blocks = 0 /\ blocks_done = 0 /\ hwseq = 0
    BY DEF Init
  <2>2. \A x \in Ctx : svc[x].pc = "idle"
    BY <2>1 DEF IdleSvc
  <2>3. CallInv
    BY <2>1, <2>2 DEF CallInv, InCall, Ctx
  <2>4. 0 \in Half /\ Plus(0, 0) = 0 /\ MaxLag \in Nat /\ 0 \in 0 .. 2 /\ 0 \in 0 .. MaxLag
    BY HalfInt, PlusOne, ConstantsAssumption
  <2>5. Spread(0, 0) /\ ReadyInv /\ SeqRight
    BY <2>1, <2>2, <2>4 DEF Spread, Reading, ReadyInv, SeqRight
  <2> QED
    BY <2>3, <2>4, <2>5 DEF LagInv
<1>2. IInv /\ CallInv /\ LagInv /\ [Next]_vars => CallInv' /\ LagInv'
  BY CallStep, LagStep DEF IInv
<1>3. LagInv => SeqExact
  BY DEF LagInv, SeqRight, SeqExact
<1> QED
  BY <1>1, <1>2, <1>3, Inductive, PTL DEF Spec
=============================================================================
