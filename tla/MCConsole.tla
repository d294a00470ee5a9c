----------------------------- MODULE MCConsole ------------------------------
(* The console's two directions for TLC, one or the other in a behaviour:  *)
(* they share no state.  The bounds are explained in README.md.            *)
EXTENDS UartTx, ConsoleRx

VARIABLE side

Sent(A) == side = "tx" /\ A
Received(A) == side = "rx" /\ A

MCInit == side \in {"tx", "rx"} /\ Init /\ RxInit

MCNext ==
  \/ Sent(Next) /\ UNCHANGED <<side, rxVars>>
  \/ Received(RxNext) /\ UNCHANGED <<side, vars>>

(* The transmitter shifts, the interrupt is taken, a running context goes  *)
(* on, and a measuring command ends.                                       *)
TxFairness ==
  /\ WF_vars(Sent(Shift)) /\ WF_vars(Sent(Isr)) /\ WF_vars(Sent(Writer("main")))
  /\ WF_vars(Sent(Command)) /\ SF_vars(Sent(QuietResume))
  /\ WF_vars(Sent(FailPolled \/ Writer("panic")))

(* The interrupt is taken, the main loop goes round, and a command ends    *)
(* (console_yield() and a grab do not go on for ever).                     *)
RxFairness ==
  /\ WF_rxVars(Received(RxIsr)) /\ WF_rxVars(Received(Main))
  /\ SF_rxVars(Received(IsrCommandEnds)) /\ SF_rxVars(Received(MainCommandEnds))

MCSpec == MCInit /\ [][MCNext]_<<side, vars, rxVars>> /\ TxFairness /\ RxFairness

(* Every byte written is sent, in whichever mode (any byte may be the one  *)
(* that bears the number 0; uart.c:146-156), and every byte held back is   *)
(* handed on after the service (cli.c:282-284).                            *)
NoByteStuck ==
  Sent(last = 0) \/ Received(held # <<>>) ~> Sent(sent = 0) \/ Received(held = <<>>)
=============================================================================
