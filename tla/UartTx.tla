------------------------------- MODULE UartTx --------------------------------
(***************************************************************************)
(* The transmit side of drivers/uart.c: a ring buffer filled by the main   *)
(* loop and by the console commands, emptied into the transmit FIFO by the *)
(* transmit interrupt - or by polling, before the interrupt is enabled,    *)
(* while a measuring command has it suspended, and after a failure.        *)
(*                                                                         *)
(* Contexts, in order of priority: the main loop (0), a command inside the *)
(* receive interrupt (1), the transmit interrupt (2), a failure (from the  *)
(* running code, "fail", or a trap from anywhere).  Each runs until it is  *)
(* done before a lower one goes on.  A writer in interrupt mode copies     *)
(* with the interrupts up to 2 held off (tx_lock()): one step.             *)
(*                                                                         *)
(* A byte is its number in the order of the writes, modulo N.              *)
(***************************************************************************)
EXTENDS Integers, Sequences

CONSTANTS
  RingSize,   \* TX_RING_SIZE (8192)
  FifoSize,   \* the hardware FIFO (8)
  N,          \* bytes are numbered modulo N
  Quiet,      \* TRUE: measuring commands, which suspend the interrupt
  Failure     \* "none", "fail" (from running code) or "trap" (from anywhere)

ASSUME UartTxAssumption ==
  /\ RingSize \in Nat /\ RingSize >= 2
  /\ FifoSize \in Nat /\ FifoSize >= 1
  /\ N \in Nat /\ N >= RingSize + FifoSize
  /\ Quiet \in BOOLEAN /\ Failure \in {"none", "fail", "trap"}

Index == 0 .. (RingSize - 1)
Num   == 0 .. (N - 1)
Ctx   == {"main", "cmd", "panic"}
Succ(n) == (n + 1) % N

VARIABLES
  ring, tx_head, tx_tail, tx_irq_on,
  txie, txif,   \* IEC3.U2TXIE, IFS3.U2TXIF
  fifo,         \* the transmit FIFO
  sent,         \* the byte shifted out last
  last,         \* the byte written last
  up,           \* cli_init() is through: commands may come
  pc,           \* where each context is
  isr,          \* where the transmit interrupt is
  tail,         \* tx_move()'s local copy, in each context and the interrupt
  measuring     \* the command is one that suspends the interrupt

ringVars == <<ring, tx_head, tx_tail>>
hwVars   == <<txie, txif, fifo, sent>>
vars == <<ringVars, tx_irq_on, hwVars, last, up, pc, isr, tail, measuring>>

NextIndex(i) == IF i + 1 = RingSize THEN 0 ELSE i + 1        \* tx_next()
Used == (tx_head - tx_tail) % RingSize                       \* tx_used_of()

Runs(c) == CASE c = "main"  -> isr = "idle" /\ pc["cmd"] = "idle" /\ pc["panic"] = "idle"
             [] c = "cmd"   -> isr = "idle" /\ pc["panic"] = "idle"
             [] c = "panic" -> TRUE

At(c, where) == pc[c] = where /\ Runs(c)
Goto(c, where) == pc' = [pc EXCEPT ![c] = where]

-----------------------------------------------------------------------------
(* The transmitter: a byte leaves the FIFO.  TXIF is raised on reaching    *)
(* "empty", not held while it is empty.                                    *)
Shift ==
  /\ fifo # <<>>
  /\ sent' = Head(fifo) /\ fifo' = Tail(fifo)
  /\ txif' = (txif \/ fifo' = <<>>)
  /\ UNCHANGED <<ringVars, tx_irq_on, txie, last, up, pc, isr, tail, measuring>>

(* tx_move(): bytes from the ring into the FIFO as long as it takes them,  *)
(* tx_tail written at the end.                                             *)
MoveByte(m) ==
  /\ tail[m] # tx_head /\ Len(fifo) < FifoSize
  /\ fifo' = Append(fifo, ring[tail[m]])
  /\ tail' = [tail EXCEPT ![m] = NextIndex(@)]
  /\ UNCHANGED <<ringVars, tx_irq_on, txie, txif, sent, last, up, pc, isr, measuring>>

MoveEnd(m) ==
  /\ tail[m] = tx_head \/ Len(fifo) = FifoSize
  /\ tx_tail' = tail[m]
  /\ tail' = [tail EXCEPT ![m] = 0]
  /\ UNCHANGED <<ring, tx_head, tx_irq_on, hwVars, last, up, measuring>>

(* _U2TXInterrupt(): the flag first, the enable off once the ring is empty.*)
IsrEnter ==
  /\ isr = "idle" /\ pc["panic"] = "idle"
  /\ txie /\ txif
  /\ txif' = FALSE
  /\ isr' = "move" /\ tail' = [tail EXCEPT !["isr"] = tx_tail]
  /\ UNCHANGED <<ringVars, tx_irq_on, txie, fifo, sent, last, up, pc, measuring>>

IsrMove ==
  /\ isr = "move" /\ pc["panic"] = "idle"
  /\ \/ MoveByte("isr")
     \/ MoveEnd("isr") /\ isr' = "enable" /\ UNCHANGED pc

DisableAlways == FALSE                         \* mutant: ring not looked at
StillToSend == txie /\ tx_tail # tx_head

IsrEnd ==
  /\ isr = "enable" /\ pc["panic"] = "idle"
  /\ txie' = StillToSend
  /\ isr' = "idle"
  /\ UNCHANGED <<ringVars, tx_irq_on, txif, fifo, sent, last, up, pc, tail, measuring>>

Isr == IsrEnter \/ IsrMove \/ IsrEnd

-----------------------------------------------------------------------------
(* A writer: console_puts(), console_write_raw() - poll until there is     *)
(* room, then uart_putc().  In the polled mode both first move the ring on.*)
(* The limits of the waits (UART_TX_WAIT_LIMIT) are for a transmitter that *)
(* does not transmit; this one does, and they never expire.                *)

Done(c) == CASE c = "main" -> "idle"
             [] c = "cmd" -> IF measuring THEN "measure" ELSE "idle"
             [] c = "panic" -> "full"

FullNever == FALSE                             \* mutant: no wait for room
RingFull == Used = RingSize - 1                \* uart_tx_full(), interrupt mode

LookIrq(c) ==
  /\ At(c, "full") /\ tx_irq_on
  /\ Goto(c, IF RingFull THEN "full" ELSE "put")
  /\ UNCHANGED <<ringVars, tx_irq_on, hwVars, last, up, isr, tail, measuring>>

LookPolled(c) ==
  /\ At(c, "full") /\ ~tx_irq_on
  /\ Goto(c, "move") /\ tail' = [tail EXCEPT ![c] = tx_tail]
  /\ UNCHANGED <<ringVars, tx_irq_on, hwVars, last, up, isr, measuring>>

MovePolled(c) ==
  /\ At(c, "move")
  /\ \/ MoveByte(c)
     \/ MoveEnd(c) /\ Goto(c, "room") /\ UNCHANGED isr

RingAside == TRUE                              \* mutant: the ring is not waited for
RingOut == tx_tail = tx_head

RoomPolled(c) ==
  /\ At(c, "room")
  /\ Goto(c, IF RingOut /\ Len(fifo) < FifoSize THEN "put" ELSE "full")
  /\ UNCHANGED <<ringVars, tx_irq_on, hwVars, last, up, isr, tail, measuring>>

(* uart_write() of one byte: the mode is read first, then the lock taken;  *)
(* no room any more, and the byte is dropped (uart_putc()).                *)
Put(c) ==
  /\ At(c, "put")
  /\ Goto(c, IF tx_irq_on THEN "copy" ELSE "raw")
  /\ UNCHANGED <<ringVars, tx_irq_on, hwVars, last, up, isr, tail, measuring>>

Copy(c) ==
  /\ At(c, "copy")
  /\ IF Used < RingSize - 1
       THEN /\ ring' = [ring EXCEPT ![tx_head] = Succ(last)]
            /\ tx_head' = NextIndex(tx_head)
            /\ last' = Succ(last)
            /\ txie' = TRUE
       ELSE UNCHANGED <<ring, tx_head, last, txie>>
  /\ Goto(c, Done(c))
  /\ UNCHANGED <<tx_tail, tx_irq_on, txif, fifo, sent, up, isr, tail, measuring>>

Raw(c) ==
  /\ At(c, "raw")
  /\ fifo' = Append(fifo, Succ(last)) /\ last' = Succ(last)
  /\ Goto(c, Done(c))
  /\ UNCHANGED <<ringVars, tx_irq_on, txie, txif, sent, up, isr, tail, measuring>>

(* uart_write() of many: what fits is copied in one go, the parser offers  *)
(* the rest again.                                                         *)
Filled(n) == [i \in Index |->
  LET k == (i - tx_head) % RingSize IN IF k < n THEN (last + 1 + k) % N ELSE ring[i]]

Write ==
  /\ At("cmd", "full") /\ tx_irq_on
  /\ LET n == RingSize - 1 - Used
     IN /\ n > 0
        /\ ring' = Filled(n)
        /\ tx_head' = (tx_head + n) % RingSize
        /\ last' = (last + n) % N
  /\ txie' = TRUE
  /\ Goto("cmd", Done("cmd"))
  /\ UNCHANGED <<tx_tail, tx_irq_on, txif, fifo, sent, up, isr, tail, measuring>>

Writer(c) == LookIrq(c) \/ LookPolled(c) \/ MovePolled(c) \/ RoomPolled(c)
             \/ Put(c) \/ Copy(c) \/ Raw(c)

-----------------------------------------------------------------------------
(* The main loop prints now and then; cli_init() ends the boot.            *)
MainPrints ==
  /\ At("main", "idle")
  /\ Goto("main", "full")
  /\ UNCHANGED <<ringVars, tx_irq_on, hwVars, last, up, isr, tail, measuring>>

EnableIrq ==                     \* uart_enable_tx_irq(), uart_enable_rx_irq()
  /\ At("main", "idle") /\ ~up
  /\ tx_irq_on' = TRUE /\ up' = TRUE
  /\ txie' = (tx_tail # tx_head)
  /\ UNCHANGED <<ringVars, txif, fifo, sent, last, pc, isr, tail, measuring>>

CommandPrints ==
  /\ up /\ At("cmd", "idle")
  /\ Goto("cmd", "full")
  /\ UNCHANGED <<ringVars, tx_irq_on, hwVars, last, up, isr, tail, measuring>>

(* console_quiet_begin(): the ring sent out, then polled mode. *)
QuietBegin ==
  /\ Quiet /\ up /\ At("cmd", "idle")
  /\ measuring' = TRUE
  /\ Goto("cmd", "flush")
  /\ UNCHANGED <<ringVars, tx_irq_on, hwVars, last, up, isr, tail>>

FlushedUnseen == TRUE                          \* mutant: nothing flushed
Flushed == tx_tail = tx_head /\ fifo = <<>>

QuietFlushed ==                  \* uart_flush() until it is out; U2TXIE = 0
  /\ At("cmd", "flush")
  /\ IF Flushed THEN txie' = FALSE /\ Goto("cmd", "suspend")
                ELSE UNCHANGED <<txie, pc>>
  /\ UNCHANGED <<ringVars, tx_irq_on, txif, fifo, sent, last, up, isr, tail, measuring>>

QuietSuspend ==
  /\ At("cmd", "suspend")
  /\ tx_irq_on' = FALSE
  /\ Goto("cmd", "measure")
  /\ UNCHANGED <<ringVars, hwVars, last, up, isr, tail, measuring>>

QuietPrints ==                   \* a result line, polled
  /\ At("cmd", "measure")
  /\ Goto("cmd", "full")
  /\ UNCHANGED <<ringVars, tx_irq_on, hwVars, last, up, isr, tail, measuring>>

QuietResume ==                   \* console_quiet_end()
  /\ At("cmd", "measure")
  /\ tx_irq_on' = TRUE
  /\ Goto("cmd", "resume")
  /\ UNCHANGED <<ringVars, hwVars, last, up, isr, tail, measuring>>

QuietEnd ==
  /\ At("cmd", "resume")
  /\ txie' = (txie \/ tx_tail # tx_head)
  /\ measuring' = FALSE
  /\ Goto("cmd", "idle")
  /\ UNCHANGED <<ringVars, tx_irq_on, txif, fifo, sent, last, up, isr, tail>>

Command == Writer("cmd") \/ Write \/ QuietFlushed \/ QuietSuspend \/ QuietPrints
           \/ QuietResume \/ QuietEnd

(* fail() in the running code, or a trap: polled mode from here on, and    *)
(* the message; nothing else runs any more.                                *)
Fails ==
  /\ pc["panic"] = "idle"
  /\ \/ Failure = "trap"
     \/ /\ Failure = "fail" /\ isr = "idle"
        /\ \/ pc["cmd"] \in {"idle", "measure"} /\ pc["main"] = "idle"
           \/ pc["cmd"] = "measure"
  /\ txie' = FALSE
  /\ Goto("panic", "polled")
  /\ UNCHANGED <<ringVars, tx_irq_on, txif, fifo, sent, last, up, isr, tail, measuring>>

FailPolled ==
  /\ At("panic", "polled")
  /\ tx_irq_on' = FALSE
  /\ Goto("panic", "full")
  /\ UNCHANGED <<ringVars, hwVars, last, up, isr, tail, measuring>>

Panic == Fails \/ FailPolled \/ Writer("panic")

-----------------------------------------------------------------------------
Init ==
  /\ ring = [i \in Index |-> 0] /\ tx_head = 0 /\ tx_tail = 0
  /\ tx_irq_on = FALSE /\ txie = FALSE /\ txif = TRUE
  /\ fifo = <<>> /\ sent = 0 /\ last = 0 /\ up = FALSE
  /\ pc = [c \in Ctx |-> "idle"] /\ isr = "idle"
  /\ tail = [m \in Ctx \cup {"isr"} |-> 0] /\ measuring = FALSE

Next == Shift \/ Isr \/ MainPrints \/ EnableIrq \/ Writer("main")
        \/ CommandPrints \/ QuietBegin \/ Command \/ Panic

Spec == Init /\ [][Next]_vars

-----------------------------------------------------------------------------
(* Properties. *)

TypeOK ==
  /\ ring \in [Index -> Num] /\ tx_head \in Index /\ tx_tail \in Index
  /\ {tx_irq_on, txie, txif, up, measuring} \subseteq BOOLEAN
  /\ fifo \in Seq(Num) /\ Len(fifo) <= FifoSize
  /\ sent \in Num /\ last \in Num
  /\ pc \in [Ctx -> {"idle", "full", "move", "room", "put", "copy", "raw", "flush",
                     "suspend", "measure", "resume", "polled"}]
  /\ isr \in {"idle", "move", "enable"}
  /\ tail \in [Ctx \cup {"isr"} -> Index]

(* The bytes leave in the order they were written, none twice and none     *)
(* left out, through every change of mode: "the order is kept"             *)
(* (uart.c:134-136, 241-243).                                              *)
InOrder == [][sent' # sent => sent' = Succ(sent)]_vars

(* A ring with something in it is never forgotten: the enable is set, and  *)
(* the flag is up or will come when the FIFO runs empty (uart.c:146-156).  *)
NoLostWakeup ==
  tx_irq_on /\ tx_tail # tx_head /\ isr = "idle"
      /\ pc["cmd"] # "resume" /\ pc["panic"] = "idle" =>
    txie /\ (txif \/ fifo # <<>>)

(* A measurement runs with nothing of the console's left to send by        *)
(* interrupt: the interrupt is off and the ring is out, and the FIFO too   *)
(* as the polled mode begins (cli.c:185-193).  A result line sent polled   *)
(* may still be leaving the FIFO, which takes no interrupt.                *)
MeasuredInQuiet ==
  pc["panic"] = "idle" =>
    /\ pc["cmd"] \in {"suspend", "measure"} => ~txie /\ isr = "idle" /\ tx_tail = tx_head
    /\ pc["cmd"] = "suspend" => fifo = <<>>

(* A command never loses a byte of its reply to a full ring: after its     *)
(* look at the room nobody but the transmit interrupt gets in between.     *)
(* Only the main loop's text can lose one, to a command.                   *)
CommandKeepsAll ==
  [][\A c \in {"cmd", "panic"} : pc[c] = "copy" /\ pc'[c] # "copy" => last' # last]_vars
=============================================================================
