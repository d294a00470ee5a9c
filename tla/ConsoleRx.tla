----------------------------- MODULE ConsoleRx ------------------------------
(***************************************************************************)
(* The receive side of the console: _U2RXInterrupt() of drivers/uart.c,    *)
(* uart_rx_hook() and console_rx_resume() of core/cli.c, with the main     *)
(* loop of core/example_main.c.  A byte goes to the parser, in the         *)
(* interrupt, or - while capture_service() runs, and until what was held   *)
(* is out - into rx_held[], for the main loop to hand on.  A byte that     *)
(* ends a line runs its command right there.                               *)
(*                                                                         *)
(* A byte is its number in the order of arrival.                           *)
(***************************************************************************)
EXTENDS Integers, Sequences

CONSTANTS
  RxFifoSize,   \* the hardware's receive FIFO (8)
  HeldMax,    \* RX_HELD_MAX (64)
  MaxBytes    \* bound: bytes that arrive

ASSUME ConsoleRxAssumption == {RxFifoSize, HeldMax, MaxBytes} \subseteq Nat \ {0}

NoByte == 0

VARIABLES
  arrived,     \* the byte that arrived last
  rx_fifo,        \* the receive FIFO
  rxie, rxif,  \* IEC3.U2RXIE, IFS3.U2RXIF
  held,        \* rx_held[0 .. rx_held_n - 1]
  held_lost,   \* rx_held_lost
  busy,        \* sigproc_busy
  sigproc_on,
  rx_isr,         \* where the receive interrupt is
  byte,        \* the byte it took from the FIFO
  mpc,         \* where the main loop is
  fed,           \* console_rx_resume()'s index
  parsed,      \* the byte the parser was given last
  passed       \* bytes dropped on purpose: console_yield(), full buffers

uartVars == <<rx_fifo, rxie, rxif>>
rxVars == <<arrived, uartVars, held, held_lost, busy, sigproc_on, rx_isr, byte, mpc, fed,
          parsed, passed>>

-----------------------------------------------------------------------------
(* A byte arrives; a full FIFO loses it. *)
Arrive ==
  /\ arrived < MaxBytes                                            \* bound
  /\ arrived' = arrived + 1
  /\ IF Len(rx_fifo) < RxFifoSize
       THEN rx_fifo' = Append(rx_fifo, arrived') /\ rxif' = TRUE /\ UNCHANGED passed
       ELSE passed' = passed \cup {arrived'} /\ UNCHANGED <<rx_fifo, rxif>>
  /\ UNCHANGED <<rxie, held, held_lost, busy, sigproc_on, rx_isr, byte, mpc, fed, parsed>>

(* _U2RXInterrupt(): the flag first, then every byte there is. *)
RxIsrEnter ==
  /\ rx_isr = "idle" /\ rxie /\ rxif
  /\ rxif' = FALSE /\ rx_isr' = "loop"
  /\ UNCHANGED <<arrived, rx_fifo, rxie, held, held_lost, busy, sigproc_on, byte, mpc, fed,
                 parsed, passed>>

IsrTake ==
  /\ rx_isr = "loop"
  /\ IF rx_fifo = <<>> THEN rx_isr' = "idle" /\ UNCHANGED <<rx_fifo, byte>>
     ELSE byte' = Head(rx_fifo) /\ rx_fifo' = Tail(rx_fifo) /\ rx_isr' = "hook"
  /\ UNCHANGED <<arrived, rxie, rxif, held, held_lost, busy, sigproc_on, mpc, fed,
                 parsed, passed>>

HoldsBusyOnly == busy                     \* mutant: order not kept
HoldsQueueOnly == held # <<>>             \* mutant: the service not looked at
Holds == busy \/ held # <<>>

Room == Len(held) < HeldMax

(* uart_rx_hook(), the two halves of it. *)
HookHold ==
  /\ rx_isr = "hook" /\ Holds
  /\ IF Room
       THEN held' = Append(held, byte) /\ UNCHANGED <<held_lost, passed>>
       ELSE held_lost' = held_lost + 1 /\ passed' = passed \cup {byte} /\ UNCHANGED held
  /\ rx_isr' = "loop" /\ byte' = NoByte
  /\ UNCHANGED <<arrived, uartVars, busy, sigproc_on, mpc, fed, parsed>>

HookParse ==
  /\ rx_isr = "hook" /\ ~Holds
  /\ parsed' = byte /\ byte' = NoByte
  /\ rx_isr' \in {"loop", "command"}
  /\ UNCHANGED <<arrived, uartVars, held, held_lost, busy, sigproc_on, mpc, fed, passed>>

(* What a command does that matters here: it switches the processing, it   *)
(* runs capture_service() itself ("stream grab"), it waits for room for    *)
(* its reply and drops what is typed meanwhile (console_yield()).          *)
CommandStep ==
  \/ /\ sigproc_on' = ~sigproc_on
     /\ UNCHANGED <<busy, rx_fifo, passed>>
  \/ /\ busy' \in BOOLEAN /\ busy' # busy
     /\ UNCHANGED <<sigproc_on, rx_fifo, passed>>
  \/ /\ rx_fifo # <<>>
     /\ passed' = passed \cup {Head(rx_fifo)} /\ rx_fifo' = Tail(rx_fifo)
     /\ UNCHANGED <<sigproc_on, busy>>

IsrCommand ==
  /\ rx_isr = "command"
  /\ CommandStep
  /\ UNCHANGED <<arrived, rxie, rxif, held, held_lost, rx_isr, byte, mpc, fed, parsed>>

IsrCommandEnds ==                \* a grab's last capture_service() is back
  /\ rx_isr = "command"
  /\ rx_isr' = "loop" /\ busy' = FALSE
  /\ UNCHANGED <<arrived, uartVars, held, held_lost, sigproc_on, byte, mpc, fed, parsed,
                 passed>>

RxIsr == RxIsrEnter \/ IsrTake \/ HookHold \/ HookParse \/ IsrCommandEnds

-----------------------------------------------------------------------------
(* The main loop, preempted by the interrupt at every step. *)
Reached(where) == mpc = where /\ rx_isr = "idle"

Serve ==                         \* capture_service() begins
  /\ Reached("serve")
  /\ busy' = TRUE /\ mpc' = "served"
  /\ UNCHANGED <<arrived, uartVars, held, held_lost, sigproc_on, rx_isr, byte, fed, parsed,
                 passed>>

Served ==
  /\ Reached("served")
  /\ busy' = FALSE /\ mpc' = "look"
  /\ UNCHANGED <<arrived, uartVars, held, held_lost, sigproc_on, rx_isr, byte, fed, parsed,
                 passed>>

WaitingWhenOn == held # <<>> /\ sigproc_on  \* mutant: only with processing
Waiting == held # <<>>

Look ==                          \* console_rx_resume(): nothing held
  /\ Reached("look")
  /\ mpc' = IF Waiting THEN "mask" ELSE "serve"
  /\ UNCHANGED <<arrived, uartVars, held, held_lost, busy, sigproc_on, rx_isr, byte, fed,
                 parsed, passed>>

Masked == FALSE

Mask ==
  /\ Reached("mask")
  /\ rxie' = Masked /\ mpc' = "feed" /\ fed' = 0
  /\ UNCHANGED <<arrived, rx_fifo, rxif, held, held_lost, busy, sigproc_on, rx_isr, byte,
                 parsed, passed>>

Feed ==
  /\ Reached("feed")
  /\ IF fed < Len(held)
       THEN /\ parsed' = held[fed + 1] /\ fed' = fed + 1
            /\ mpc' \in {"feed", "command"}
       ELSE mpc' = "clear" /\ UNCHANGED <<parsed, fed>>
  /\ UNCHANGED <<arrived, uartVars, held, held_lost, busy, sigproc_on, rx_isr, byte, passed>>

MainCommand ==
  /\ Reached("command")
  /\ CommandStep
  /\ UNCHANGED <<arrived, rxie, rxif, held, held_lost, rx_isr, byte, mpc, fed, parsed>>

MainCommandEnds ==
  /\ Reached("command")
  /\ mpc' = "feed" /\ busy' = FALSE
  /\ UNCHANGED <<arrived, uartVars, held, held_lost, sigproc_on, rx_isr, byte, fed, parsed,
                 passed>>

Cleared ==                       \* rx_held_n = 0, the mask lifted
  /\ Reached("clear")
  /\ held' = <<>>
  /\ mpc' = "restore" /\ fed' = 0
  /\ UNCHANGED <<arrived, uartVars, held_lost, busy, sigproc_on, rx_isr, byte, parsed, passed>>

Restore ==
  /\ Reached("restore")
  /\ rxie' = TRUE /\ mpc' = "serve"
  /\ UNCHANGED <<arrived, rx_fifo, rxif, held, held_lost, busy, sigproc_on, rx_isr, byte, fed,
                 parsed, passed>>

Main == Serve \/ Served \/ Look \/ Mask \/ Feed \/ MainCommandEnds \/ Cleared \/ Restore

-----------------------------------------------------------------------------
RxInit ==
  /\ arrived = 0 /\ rx_fifo = <<>> /\ rxie = TRUE /\ rxif = FALSE
  /\ held = <<>> /\ held_lost = 0 /\ busy = FALSE /\ sigproc_on = FALSE
  /\ rx_isr = "idle" /\ byte = NoByte /\ mpc = "serve" /\ fed = 0
  /\ parsed = NoByte /\ passed = {}

RxNext == Arrive \/ RxIsr \/ IsrCommand \/ Main \/ MainCommand

RxSpec == RxInit /\ [][RxNext]_rxVars

-----------------------------------------------------------------------------
(* Properties. *)

RxTypeOK ==
  /\ arrived \in 0 .. MaxBytes /\ parsed \in 0 .. MaxBytes /\ byte \in 0 .. MaxBytes
  /\ rx_fifo \in Seq(1 .. MaxBytes) /\ Len(rx_fifo) <= RxFifoSize
  /\ held \in Seq(1 .. MaxBytes) /\ Len(held) <= HeldMax
  /\ held_lost \in 0 .. MaxBytes /\ passed \subseteq 1 .. MaxBytes
  /\ {rxie, rxif, busy, sigproc_on} \subseteq BOOLEAN
  /\ rx_isr \in {"idle", "loop", "hook", "command"}
  /\ mpc \in {"serve", "served", "look", "mask", "feed", "command", "clear", "restore"}
  /\ fed \in 0 .. HeldMax

(* The bytes that the parser has still to be given, in its order. *)
Held == SubSeq(held, fed + 1, Len(held))
Taken == IF byte = NoByte THEN <<>> ELSE <<byte>>
ToParse == Held \o Taken \o rx_fifo

(* The parser is given the bytes in the order they arrived, each of them   *)
(* once, and all of them but those dropped on purpose: held-back bytes are *)
(* not overtaken, and none is appended behind the loop's back              *)
(* (cli.c:282-284, 310-315).                                               *)
ParsedInOrder ==
  /\ \A k \in 1 .. Len(ToParse) : ToParse[k] > (IF k = 1 THEN parsed ELSE ToParse[k - 1])
  /\ {ToParse[k] : k \in 1 .. Len(ToParse)} = (parsed + 1 .. arrived) \ passed

(* No command starts inside the main loop's capture_service()              *)
(* (capture.c:895-910).                                                    *)
ServiceUndisturbed == rx_isr = "command" => mpc # "served"
=============================================================================
